---- MODULE Spec2Model ----
(***************************************************************************)
(* Model of the Graphiti MCP server (graphiti_mcp_server.py): the          *)
(* per-group_id episode queues and their worker tasks, the graph store as  *)
(* seen through the tools, and the clear_graph authorization guard.        *)
(*                                                                         *)
(* The server runs on one asyncio event loop.  A step of the model is what *)
(* one task does between two suspension points: a tool handler up to its   *)
(* first await that really suspends, a worker from one await to the next.  *)
(* Queue.put and Queue.get of an unbounded asyncio.Queue do not suspend    *)
(* when they can proceed at once; the backend calls (client.add_episode,   *)
(* client.build_communities, clear_data, build_indices_and_constraints)    *)
(* do.  Ready tasks run in any order.                                      *)
(***************************************************************************)
EXTENDS Naturals, Sequences, FiniteSets, TLC

\* ------------------------------------------------------------------ bounds
\* Number of add_episode calls made in a run.
MaxEpisodes == 2
\* Number of clear_graph calls made in a run.
MaxClearCalls == 2
\* Number of distinct authorization codes uuid4()[:8] is drawn from.
NumCodes == 2

\* ------------------------------------------------------------------ values
None == "None"
Namespaces == {"root", "demo"}
Codes == 1..NumCodes
\* What a caller passes as group_id: a namespace, or nothing.
GroupArgs == Namespaces \cup {None}
\* (name, episode_body, format, uuid) as a caller passes them.
Payloads ==
  { [name |-> "E1", episode_body |-> "Alice met Bob.", format |-> "text", uuid |-> None],
    [name |-> "J",  episode_body |-> "{not json",      format |-> "json", uuid |-> "u-1"] }
\* Calls that also pass entity_subset (<<None>>: the default None).
SubsetPayloads ==
  { [name |-> "E1", episode_body |-> "Alice met Bob.", format |-> "text", uuid |-> None,
     entity_subset |-> <<None>>],
    [name |-> "E1", episode_body |-> "Alice met Bob.", format |-> "text", uuid |-> None,
     entity_subset |-> <<"Requirement">>],
    [name |-> "S1", episode_body |-> "Use a hammer.", format |-> "text", uuid |-> None,
     entity_subset |-> <<"Tool">>] }
DELETE_SUFFIX == "_DELETE_THIS_GRAPH"
\* auth as a caller passes it: nothing, or a string; a string is kept as the
\* pair (leading code, rest), which is what the comparison with
\* f"{code}_DELETE_THIS_GRAPH" depends on.  code 0 is a string that starts
\* with no code at all ("wrong").
AuthStrings == [code : Codes \cup {0}, rest : {DELETE_SUFFIX, ""}]
\* auth=None (the default) in the same shape.
NoAuth == [code |-> 0, rest |-> None]
AuthArgs == AuthStrings \cup {NoAuth}

NoTask == [id |-> 0]

\* What a tool returns: a dict (TypedDict or plain) with its keys, or a list.
JsonDict(fields) == [type |-> "dict", fields |-> fields]
JsonList(items) == [type |-> "list", items |-> items]
\* No tool call has returned yet.
NoResponse == [tool |-> None]
\* No CLI command is running.
NoCli == [pc |-> "none"]

VARIABLES
  config_group_id,        \* config.group_id, set at startup
  root_group_id,          \* os.environ MCP_ROOT_GROUP_ID (default 'root')
  graphiti_client,        \* the global client: "Graphiti" or None
  startup,                \* where initialize_server is, with its args while it runs
  entity_registry,        \* _ENTITY_REGISTRY: dict name -> class
  load_log,               \* what the entity loader logged
  episode_queues,         \* dict group_id -> asyncio.Queue (its items, in order)
  queue_workers,          \* dict group_id -> bool
  workers,                \* the tasks made by create_task(process_episode_queue(g))
  graph,                  \* episodic nodes in the graph store
  graph_clear_auth_code,  \* the global authorization code
  clear_calls,            \* the clear_graph calls made, each with its position and response
  accepted,               \* history: the accepted add_episode calls, in order
  events,                 \* history: dequeue / done events of the workers, in order
  response,               \* the last tool call that returned and what it returned
  cli                     \* a run of the graphiti CLI's docker commands (another process)

vars == <<config_group_id, root_group_id, graphiti_client, startup,
          entity_registry, load_log, episode_queues,
          queue_workers, workers, graph, graph_clear_auth_code, clear_calls,
          accepted, events, response, cli>>

\* What startup sets and serving leaves alone.
confVars == <<config_group_id, root_group_id, graphiti_client, startup,
              entity_registry, load_log, cli>>
ingestVars == <<episode_queues, queue_workers, workers, accepted, events>>
guardVars == <<graph_clear_auth_code, clear_calls>>

\* ------------------------------------------------------------------ helpers
Range(f) == {f[i] : i \in DOMAIN f}

\* Faulty variant of WorkerFlag: one flag for all namespaces, so one worker at
\* a time for the whole server.
WorkerFlag_Shared(g) == \E h \in DOMAIN queue_workers : queue_workers[h]

\* queue_workers.get(g, False)
WorkerFlag(g) == IF g \in DOMAIN queue_workers THEN queue_workers[g] ELSE FALSE

\* queue_workers[g] = v
SetFlag(qw, g, v) == [h \in DOMAIN qw \cup {g} |-> IF h = g THEN v ELSE qw[h]]

\* str(uuid.uuid4())[:8]: any code, the current one included.
NewAuthCode == Codes

\* Faulty variant of ExpectedAuth: the code alone is expected, without the suffix.
ExpectedAuth_CodeOnly(code) == [code |-> code, rest |-> ""]

\* f"{graph_clear_auth_code}_DELETE_THIS_GRAPH"
ExpectedAuth(code) == [code |-> code, rest |-> DELETE_SUFFIX]

\* Nodes the graph database holds from earlier runs of the server.
OldNode(g) == [id |-> 0, name |-> "old", body |-> "old", group_id |-> g, uuid |-> "u-0"]
InitialGraphs == {{}, {OldNode("root"), OldNode("demo")}}

\* ------------------------------------------------------------------ entity files
\* Longest --entities selector drawn.
MaxSelectorLen == 3

\* A string whose characters matter (a selector, a directory name) is the
\* sequence of its characters.
SelectorChars == {"a", "b", "n", ",", " "}
RECURSIVE Strings(_)
Strings(n) ==
  IF n = 0 THEN {<<>>}
  ELSE Strings(n - 1) \cup {Append(s, c) : s \in {t \in Strings(n - 1) : Len(t) = n - 1},
                                            c \in SelectorChars}
Selectors == Strings(MaxSelectorLen)

container_base_entity_dir == "/app/entities"
ProjectDir == "/proj/entities"

\* The entity files on disk: the base directory they are under, their
\* directory relative to it (a sequence of names), their name, whether
\* executing the module raises, and the classes dir(module) lists that are
\* BaseModel subclasses, each with or without a docstring.
File(base, sub, name, raises, classes) ==
  [base |-> base, sub |-> sub, name |-> name, raises |-> raises, classes |-> classes]
Class(name, doc) == [name |-> name, doc |-> doc]
FileList ==
  << File(container_base_entity_dir, <<>>, "__init__.py", FALSE, <<Class("Registry", TRUE)>>),
     File(container_base_entity_dir, <<>>, "requirement.py", FALSE, <<Class("Requirement", TRUE)>>),
     File(container_base_entity_dir, <<>>, "tool.py", FALSE, <<Class("Tool", TRUE)>>),
     File(container_base_entity_dir, << <<"r">> >>, "tool.py", FALSE, <<Class("Tool", TRUE)>>),
     File(ProjectDir, <<>>, "top.py", FALSE, <<Class("Procedure", TRUE)>>),
     File(ProjectDir, << <<"a">> >>, "req.py", FALSE,
          <<Class("Draft", FALSE), Class("Requirement", TRUE)>>),
     File(ProjectDir, << <<"a">>, <<"n">> >>, "deep.py", FALSE, <<Class("Goal", TRUE)>>),
     File(ProjectDir, << <<"b">> >>, "bad.py", TRUE, <<Class("Broken", TRUE)>>),
     File(ProjectDir, << <<"b">> >>, "pref.py", FALSE, <<Class("Preference", TRUE)>>) >>
Files == Range(FileList)

\* A directory: a base path and the names below it.
Dir(base, sub) == [base |-> base, sub |-> sub]
IsPrefix(s, t) == Len(s) <= Len(t) /\ SubSeq(t, 1, Len(s)) = s
\* target_dir.exists() and target_dir.is_dir()
DirExists(d) == \E f \in Files : f.base = d.base /\ IsPrefix(d.sub, f.sub)

\* os.path.abspath: a trailing slash is dropped.
Abspath(path) == IF path = "/app/entities/" THEN "/app/entities" ELSE path
\* str.lower() of an --include-root-entities value.
Lower(str) == IF str \in {"TRUE", "True"} THEN "true" ELSE str

\* The order in which rglob yields files is the file system's: the listing
\* above, or its reverse.
Orders == {"forward", "reverse"}
Reverse(seq) == [i \in 1..Len(seq) |-> seq[Len(seq) + 1 - i]]
\* base_dir.rglob('*.py') without the names starting with '__'.
IsUnder(f, d) == f.base = d.base /\ IsPrefix(d.sub, f.sub)
StartsWithDunder(f) == f.name = "__init__.py"
RGlob(d, ord) ==
  LET listing == IF ord = "forward" THEN FileList ELSE Reverse(FileList)
      under(f) == IsUnder(f, d) /\ ~StartsWithDunder(f)
  IN SelectSeq(listing, under)

\* ------------------------------------------------------------------ entity registry
\* The class object a module execution creates for a class of a file.
Schema(f, c) == [file |-> <<f.base, f.sub, f.name>>, name |-> c.name]

\* Faulty variant of register_entity: a name already registered is kept.
register_entity_KeepFirst(reg, name, entity_class) ==
  IF name \in DOMAIN reg THEN reg
  ELSE [n \in DOMAIN reg \cup {name} |-> IF n = name THEN entity_class ELSE reg[n]]

\* _ENTITY_REGISTRY[name] = entity_class
register_entity(reg, name, entity_class) ==
  [n \in DOMAIN reg \cup {name} |-> IF n = name THEN entity_class ELSE reg[n]]

\* get_entity_subset(names)
get_entity_subset(reg, names) ==
  [n \in Range(names) \cap DOMAIN reg |-> reg[n]]

\* The loader's state: the registry and the log lines written so far (the
\* per-registration debug lines, the warnings and the errors).
Logged(st, level, msg, about) ==
  [st EXCEPT !.log = Append(@, [level |-> level, msg |-> msg, about |-> about])]

\* The loop of _load_and_register_entity_module over dir(module), from the
\* i-th class on: a class with a docstring is registered under its name.
RECURSIVE RegisterClasses(_, _, _)
RegisterClasses(st, f, i) ==
  IF i > Len(f.classes) THEN st
  ELSE LET c == f.classes[i]
           st1 == IF c.doc
                  THEN Logged([st EXCEPT !.registry = register_entity(@, c.name, Schema(f, c))],
                              "debug", "Auto-registered entity", Schema(f, c))
                  ELSE st
       IN RegisterClasses(st1, f, i + 1)

\* _load_and_register_entity_module(file_path): a module that raises is
\* logged and skipped.
LoadAndRegisterEntityModule(st, f) ==
  IF f.raises THEN Logged(st, "error", "Error loading entity module", f.name)
  ELSE RegisterClasses(st, f, 1)

RECURSIVE LoadModules(_, _, _)
LoadModules(st, files, i) ==
  IF i > Len(files) THEN st
  ELSE LoadModules(LoadAndRegisterEntityModule(st, files[i]), files, i + 1)

\* Faulty variant of LoadModulesRecursive: only the files directly in base_dir.
LoadModulesRecursive_Flat(st, base_dir, ord) ==
  LET files == SelectSeq(RGlob(base_dir, ord), LAMBDA f : f.sub = base_dir.sub)
      st1 == LoadModules(st, files, 1)
  IN IF Len(files) = 0 THEN Logged(st1, "warning", "No Python files found", base_dir) ELSE st1

\* _load_modules_recursive(base_dir)
LoadModulesRecursive(st, base_dir, ord) ==
  LET files == RGlob(base_dir, ord)
      st1 == LoadModules(st, files, 1)
  IN IF Len(files) = 0 THEN Logged(st1, "warning", "No Python files found", base_dir) ELSE st1

\* str.split(',')
RECURSIVE Split(_)
Split(str) ==
  IF \A i \in DOMAIN str : str[i] # "," THEN <<str>>
  ELSE LET k == CHOOSE i \in DOMAIN str : str[i] = "," /\ \A j \in 1..(i - 1) : str[j] # ","
       IN <<SubSeq(str, 1, k - 1)>> \o Split(SubSeq(str, k + 1, Len(str)))
\* str.strip()
RECURSIVE StripLeft(_)
StripLeft(str) == IF str # <<>> /\ Head(str) = " " THEN StripLeft(Tail(str)) ELSE str
Strip(str) == Reverse(StripLeft(Reverse(StripLeft(str))))
\* [subdir.strip() for subdir in spec.split(',') if subdir.strip()]
SelectedSubdirs(subdir_selection_spec) ==
  LET pieces == Split(subdir_selection_spec)
      stripped == [i \in DOMAIN pieces |-> Strip(pieces[i])]
  IN SelectSeq(stripped, LAMBDA x : x # <<>>)

\* The loop over selected_subdirs, from the i-th name on.
RECURSIVE LoadSelected(_, _, _, _, _)
LoadSelected(st, directory_path, names, i, ord) ==
  IF i > Len(names) THEN st
  ELSE LET target_dir == Dir(directory_path, <<names[i]>>)
           st1 == IF DirExists(target_dir) THEN LoadModulesRecursive(st, target_dir, ord)
                  ELSE Logged(st, "warning", "Specified entity subdirectory does not exist",
                              target_dir)
       IN LoadSelected(st1, directory_path, names, i + 1, ord)

\* load_entities_from_directory(directory_path, subdir_selection_spec)
load_entities_from_directory(st, directory_path, subdir_selection_spec, ord) ==
  LET base_directory == Dir(directory_path, <<>>)
      selected_subdirs == SelectedSubdirs(subdir_selection_spec)
  IN IF ~DirExists(base_directory)
     THEN Logged(st, "warning", "Base entities directory does not exist", base_directory)
     ELSE IF subdir_selection_spec = <<>> THEN LoadModulesRecursive(st, base_directory, ord)
     ELSE IF selected_subdirs = <<>>
     THEN Logged(st, "warning", "Empty or invalid subdir selection spec", subdir_selection_spec)
     ELSE LoadSelected(st, directory_path, selected_subdirs, 1, ord)

\* ------------------------------------------------------------------ startup
\* The command line: --include-root-entities, --entities-dir, --entities.
Args(include_root_entities, entities_dir, entities) ==
  [include_root_entities |-> include_root_entities, entities_dir |-> entities_dir,
   entities |-> entities]
IncludeRootValues == {"true", "TRUE", "false"}
EntitiesDirValues == {None, "/app/entities/", ProjectDir, "/missing"}
ArgsSet ==
  {Args(r, d, e) : r \in IncludeRootValues, d \in EntitiesDirValues, e \in Selectors}
\* The defaults: root entities included, no project directory.
DefaultArgs == Args("true", None, <<>>)

\* Lines 954-969 of initialize_server: the root entities.
LoadedRoot(st, args, ord) ==
  IF Lower(args.include_root_entities) = "true"
  THEN IF DirExists(Dir(container_base_entity_dir, <<>>))
       THEN load_entities_from_directory(st, container_base_entity_dir, <<>>, ord)
       ELSE Logged(st, "warning", "Root entities directory not found", container_base_entity_dir)
  ELSE st

\* Lines 971-985 of initialize_server: the project entities.
LoadedProject(st, args, ord) ==
  IF args.entities_dir \in {None, ""} THEN st
  ELSE IF Abspath(args.entities_dir) = Abspath(container_base_entity_dir) THEN st
  ELSE IF DirExists(Dir(Abspath(args.entities_dir), <<>>))
  THEN load_entities_from_directory(st, Abspath(args.entities_dir), args.entities, ord)
  ELSE Logged(st, "warning", "Project entities directory not found", args.entities_dir)

NothingLoaded == [registry |-> <<>>, log |-> <<>>]
\* The loader's state when a server started with the defaults begins to serve.
DefaultStarted == LoadedProject(LoadedRoot(NothingLoaded, DefaultArgs, "forward"),
                                DefaultArgs, "forward")
Serving == [pc |-> "serving"]

\* ------------------------------------------------------------------ Init
\* The state in which a server started with the defaults begins to serve.
Init ==
  /\ config_group_id \in Namespaces
  /\ root_group_id = "root"
  /\ graphiti_client = "Graphiti"
  /\ startup = Serving
  /\ entity_registry = DefaultStarted.registry
  /\ load_log = DefaultStarted.log
  /\ episode_queues = <<>>
  /\ queue_workers = <<>>
  /\ workers = <<>>
  /\ graph \in InitialGraphs
  /\ graph_clear_auth_code \in Codes
  /\ clear_calls = <<>>
  /\ accepted = <<>>
  /\ events = <<>>
  /\ response = NoResponse
  /\ cli = NoCli

\* The state in which initialize_server starts to load entities: the
\* command line is parsed, config.group_id is set, nothing is registered.
InitStartup ==
  /\ config_group_id = "root"
  /\ root_group_id = "root"
  /\ graphiti_client = None
  /\ startup \in {[pc |-> "load_root", args |-> a] : a \in ArgsSet}
  /\ entity_registry = <<>>
  /\ load_log = <<>>
  /\ episode_queues = <<>>
  /\ queue_workers = <<>>
  /\ workers = <<>>
  /\ graph = {}
  /\ graph_clear_auth_code = 1
  /\ clear_calls = <<>>
  /\ accepted = <<>>
  /\ events = <<>>
  /\ response = NoResponse
  /\ cli = NoCli

\* What is left alone while initialize_server loads entities.
servingVars == <<ingestVars, graph, guardVars, response, cli>>

\* initialize_server, lines 954-969.
LoadRootEntities ==
  /\ startup.pc = "load_root"
  /\ \E ord \in Orders :
       LET st == LoadedRoot([registry |-> entity_registry, log |-> load_log], startup.args, ord)
       IN entity_registry' = st.registry /\ load_log' = st.log
  /\ startup' = [startup EXCEPT !.pc = "load_project"]
  /\ UNCHANGED <<config_group_id, root_group_id, graphiti_client, servingVars>>

\* initialize_server, lines 971-985.
LoadProjectEntities ==
  /\ startup.pc = "load_project"
  /\ \E ord \in Orders :
       LET st == LoadedProject([registry |-> entity_registry, log |-> load_log], startup.args, ord)
       IN entity_registry' = st.registry /\ load_log' = st.log
  /\ startup' = [startup EXCEPT !.pc = "initialize_graphiti"]
  /\ UNCHANGED <<config_group_id, root_group_id, graphiti_client, servingVars>>

\* `await initialize_graphiti(...)` returns (without --destroy-graph), then
\* initialize_server returns and run_mcp_server starts the transport; args
\* is a local of initialize_server and is gone.
InitializeGraphiti ==
  /\ startup.pc = "initialize_graphiti"
  /\ graphiti_client' = "Graphiti"
  /\ startup' = Serving
  /\ UNCHANGED <<config_group_id, root_group_id, entity_registry, load_log, servingVars>>

\* initialize_graphiti raises (no API key, the database is unreachable):
\* main logs and re-raises, the process ends without serving.
InitializeGraphitiRaises ==
  /\ startup.pc = "initialize_graphiti"
  /\ startup' = [pc |-> "exited"]
  /\ UNCHANGED <<config_group_id, root_group_id, graphiti_client, entity_registry, load_log,
                 servingVars>>

StartupNext ==
  \/ LoadRootEntities
  \/ LoadProjectEntities
  \/ InitializeGraphiti
  \/ InitializeGraphitiRaises

\* ------------------------------------------------------------------ add_episode
\* The effective group id of a call.
EffectiveGroupId(group_id) == IF group_id # None THEN group_id ELSE config_group_id

\* The closure process_episode: what it captured.
ProcessEpisode(id, p, group_id) ==
  [id |-> id, name |-> p.name, episode_body |-> p.episode_body,
   source_type |-> p.format, group_id_str |-> EffectiveGroupId(group_id),
   uuid |-> p.uuid]

\* Faulty variant of Enqueue: the create_task call is forgotten.
Enqueue_NoSpawn(task) ==
  LET g == task.group_id_str
      q1 == IF g \in DOMAIN episode_queues THEN episode_queues
            ELSE episode_queues @@ (g :> <<>>)
      q2 == [q1 EXCEPT ![g] = Append(@, task)]
  IN /\ episode_queues' = q2
     /\ workers' = workers
     /\ accepted' = Append(accepted, [task |-> task, position |-> Len(q2[g]),
                                      registered |-> entity_registry])

\* The queueing part of add_episode: make the queue, put, ensure a worker.
Enqueue(task) ==
  LET g == task.group_id_str
      q1 == IF g \in DOMAIN episode_queues THEN episode_queues
            ELSE episode_queues @@ (g :> <<>>)
      q2 == [q1 EXCEPT ![g] = Append(@, task)]
  IN /\ episode_queues' = q2
     /\ workers' = IF ~WorkerFlag(g)
                   THEN Append(workers, [group_id |-> g, pc |-> "created", process_func |-> NoTask])
                   ELSE workers
     /\ accepted' = Append(accepted, [task |-> task, position |-> Len(q2[g]),
                                      registered |-> entity_registry])

\* Faulty variant of Queued: the depth is the one read before the put.
Queued_DepthBeforePut(name, position) ==
  JsonDict([message |-> [name |-> name, position |-> position - 1]])

\* The 'queued' message of add_episode: it carries the name and qsize().
Queued(name, position) == JsonDict([message |-> [name |-> name, position |-> position]])

\* Faulty variant of add_episode: the call narrows the registry to its
\* entity_subset.
add_episode_NarrowsRegistry(p, group_id) ==
  /\ Len(accepted) < MaxEpisodes
  /\ graphiti_client # None
  /\ Enqueue(ProcessEpisode(Len(accepted) + 1, p, group_id))
  /\ response' = [tool |-> "add_episode",
                  result |-> Queued(p.name, Len(episode_queues'[EffectiveGroupId(group_id)]))]
  /\ entity_registry' = get_entity_subset(entity_registry, p.entity_subset)
  /\ UNCHANGED <<config_group_id, root_group_id, graphiti_client, startup, load_log,
                 cli, queue_workers, graph, guardVars, events>>

\* add_episode for an accepted call: queue the task, return the 'queued' message.
add_episode(p, group_id) ==
  /\ Len(accepted) < MaxEpisodes
  /\ graphiti_client # None
  /\ Enqueue(ProcessEpisode(Len(accepted) + 1, p, group_id))
  /\ response' = [tool |-> "add_episode",
                  result |-> Queued(p.name, Len(episode_queues'[EffectiveGroupId(group_id)]))]
  /\ UNCHANGED <<confVars, queue_workers, graph, guardVars, events>>

\* ------------------------------------------------------------------ worker
\* get_entities(): the registry itself.
get_entities == entity_registry

\* Faulty variant of EntitiesToUse: the predefined REQUIREMENT_ONLY_ENTITIES.
EntitiesToUse_RequirementOnly(t) == get_entity_subset(entity_registry, <<"Requirement">>)

\* Faulty variant of EntitiesToUse: the set that startup registered.
EntitiesToUse_AtStartup(t) == DefaultStarted.registry

\* entities_to_use of process_episode: whatever is registered when the task
\* runs; nothing of the call is looked at.
EntitiesToUse(t) == get_entities

\* Bodies json.loads accepts; every other body of the payloads is malformed.
ValidJsonBodies == {"[]", "{}"}
json_loads(episode_body_str) ==
  IF episode_body_str \in ValidJsonBodies THEN "parsed" ELSE "JSONDecodeError"

\* The parse attempt of process_episode: made only for format json.
ParseBody(t) ==
  IF t.source_type = "json" THEN json_loads(t.episode_body) ELSE "not attempted"

\* Faulty variant of AfterParse: the commented-out raise ValueError is active.
AfterParse_RaiseOnBadJson(t) ==
  IF ParseBody(t) = "JSONDecodeError" THEN "raised" ELSE "client.add_episode"

\* Where process_episode is after the parse attempt: a JSONDecodeError is
\* logged and processing goes on to client.add_episode, as in every other case.
AfterParse(t) ==
  IF ParseBody(t) = "JSONDecodeError" THEN "client.add_episode" ELSE "client.add_episode"

\* Faulty variant of TakeNext: the item is read but left on the queue.
TakeNext_NoPop(w, qs, ev) ==
  LET g == workers[w].group_id IN
  IF qs[g] # <<>>
  THEN /\ episode_queues' = qs
       /\ workers' = [workers EXCEPT ![w].pc = AfterParse(Head(qs[g])),
                                     ![w].process_func = Head(qs[g])]
       /\ events' = Append(ev, [kind |-> "get", id |-> Head(qs[g]).id, worker |-> w,
                                parse |-> ParseBody(Head(qs[g])),
                                entity_types |-> EntitiesToUse(Head(qs[g]))])
  ELSE /\ episode_queues' = qs
       /\ workers' = [workers EXCEPT ![w].pc = "get", ![w].process_func = NoTask]
       /\ events' = ev

\* `await episode_queues[g].get()` followed by the call of process_func up to
\* its await of client.add_episode (the "get" event carries how the JSON
\* parse ended and the entity_types it passes); with an empty queue the
\* worker suspends in get().
TakeNext(w, qs, ev) ==
  LET g == workers[w].group_id IN
  IF qs[g] # <<>>
  THEN /\ episode_queues' = [qs EXCEPT ![g] = Tail(@)]
       /\ workers' = [workers EXCEPT ![w].pc = AfterParse(Head(qs[g])),
                                     ![w].process_func = Head(qs[g])]
       /\ events' = Append(ev, [kind |-> "get", id |-> Head(qs[g]).id, worker |-> w,
                                parse |-> ParseBody(Head(qs[g])),
                                entity_types |-> EntitiesToUse(Head(qs[g]))])
  ELSE /\ episode_queues' = qs
       /\ workers' = [workers EXCEPT ![w].pc = "get", ![w].process_func = NoTask]
       /\ events' = ev

\* episode_queues[g].task_done(), then the loop's next get().
TaskDone(w, ev) ==
  TakeNext(w, episode_queues,
           Append(ev, [kind |-> "done", id |-> workers[w].process_func.id, worker |-> w]))

\* The first run of process_episode_queue(g): set the flag, enter the loop.
WorkerStart(w) ==
  /\ w \in DOMAIN workers
  /\ workers[w].pc = "created"
  /\ queue_workers' = SetFlag(queue_workers, workers[w].group_id, TRUE)
  /\ TakeNext(w, episode_queues, events)
  /\ UNCHANGED <<confVars, response, graph, guardVars, accepted>>

\* A worker suspended in get() is woken by a put and finds an item.
WorkerGet(w) ==
  /\ w \in DOMAIN workers
  /\ workers[w].pc = "get"
  /\ episode_queues[workers[w].group_id] # <<>>
  /\ TakeNext(w, episode_queues, events)
  /\ UNCHANGED <<confVars, response, queue_workers, graph, guardVars, accepted>>

\* Faulty variant of EpisodicNode: config.group_id is passed instead of group_id_str.
EpisodicNode_DefaultGroup(t) ==
  [id |-> t.id, name |-> t.name, body |-> t.episode_body,
   group_id |-> config_group_id, uuid |-> t.uuid]

\* The EpisodicNode client.add_episode persists for a task.
EpisodicNode(t) ==
  [id |-> t.id, name |-> t.name, body |-> t.episode_body,
   group_id |-> t.group_id_str, uuid |-> t.uuid]

\* client.add_episode returns: the node is in the graph; build_communities is awaited.
ClientAddEpisodeOk(w) ==
  /\ w \in DOMAIN workers
  /\ workers[w].pc = "client.add_episode"
  /\ graph' = graph \cup {EpisodicNode(workers[w].process_func)}
  /\ workers' = [workers EXCEPT ![w].pc = "client.build_communities"]
  /\ UNCHANGED <<confVars, response, episode_queues, queue_workers, guardVars, accepted, events>>

\* Faulty variant of ClientAddEpisodeRaises: the exception is not caught inside the
\* loop, so after task_done the worker leaves it and stops.
ClientAddEpisodeRaises_WorkerDies(w) ==
  /\ w \in DOMAIN workers
  /\ workers[w].pc = "client.add_episode"
  /\ events' = events \o <<[kind |-> "error", id |-> workers[w].process_func.id, worker |-> w],
                            [kind |-> "done", id |-> workers[w].process_func.id, worker |-> w]>>
  /\ workers' = [workers EXCEPT ![w].pc = "stopped", ![w].process_func = NoTask]
  /\ queue_workers' = SetFlag(queue_workers, workers[w].group_id, FALSE)
  /\ UNCHANGED <<confVars, response, episode_queues, graph, guardVars, accepted>>

\* client.add_episode raises (ValidationError or another Exception): caught and
\* logged in process_episode, which returns; the worker marks the task done.
ClientAddEpisodeRaises(w) ==
  /\ w \in DOMAIN workers
  /\ workers[w].pc = "client.add_episode"
  /\ TaskDone(w, Append(events, [kind |-> "error", id |-> workers[w].process_func.id, worker |-> w]))
  /\ UNCHANGED <<confVars, response, queue_workers, graph, guardVars, accepted>>

\* client.build_communities returns or raises: either way process_episode
\* returns and the worker marks the task done.
BuildCommunitiesEnds(w) ==
  /\ w \in DOMAIN workers
  /\ workers[w].pc = "client.build_communities"
  /\ TaskDone(w, events)
  /\ UNCHANGED <<confVars, response, queue_workers, graph, guardVars, accepted>>

\* client.build_communities returns: process_episode logs success and returns.
BuildCommunitiesReturns(w) ==
  /\ w \in DOMAIN workers
  /\ workers[w].pc = "client.build_communities"
  /\ TaskDone(w, events)
  /\ UNCHANGED <<confVars, response, queue_workers, graph, guardVars, accepted>>

\* Faulty variant of BuildCommunitiesRaises: the exception ends the worker's loop.
BuildCommunitiesRaises_WorkerDies(w) ==
  /\ w \in DOMAIN workers
  /\ workers[w].pc = "client.build_communities"
  /\ events' = events \o
       <<[kind |-> "communities_error", id |-> workers[w].process_func.id, worker |-> w],
         [kind |-> "done", id |-> workers[w].process_func.id, worker |-> w]>>
  /\ workers' = [workers EXCEPT ![w].pc = "stopped", ![w].process_func = NoTask]
  /\ queue_workers' = SetFlag(queue_workers, workers[w].group_id, FALSE)
  /\ UNCHANGED <<confVars, response, episode_queues, graph, guardVars, accepted>>

\* client.build_communities raises: `except Exception` of process_episode
\* logs it and process_episode returns; the worker marks the task done.
\* The failure is kept in the history.
BuildCommunitiesRaises(w) ==
  /\ w \in DOMAIN workers
  /\ workers[w].pc = "client.build_communities"
  /\ TaskDone(w, Append(events, [kind |-> "communities_error",
                                 id |-> workers[w].process_func.id, worker |-> w]))
  /\ UNCHANGED <<confVars, response, queue_workers, graph, guardVars, accepted>>

\* The ingestion engine with the two ends of build_communities told apart.
CommunitiesNext ==
  \/ \E p \in Payloads, g \in GroupArgs : add_episode(p, g)
  \/ \E w \in 1..MaxEpisodes : WorkerStart(w)
  \/ \E w \in 1..MaxEpisodes : WorkerGet(w)
  \/ \E w \in 1..MaxEpisodes : ClientAddEpisodeOk(w)
  \/ \E w \in 1..MaxEpisodes : ClientAddEpisodeRaises(w)
  \/ \E w \in 1..MaxEpisodes : BuildCommunitiesReturns(w)
  \/ \E w \in 1..MaxEpisodes : BuildCommunitiesRaises(w)

IngestNext ==
  \/ \E p \in Payloads, g \in GroupArgs : add_episode(p, g)
  \/ \E w \in 1..MaxEpisodes : WorkerStart(w)
  \/ \E w \in 1..MaxEpisodes : WorkerGet(w)
  \/ \E w \in 1..MaxEpisodes : ClientAddEpisodeOk(w)
  \/ \E w \in 1..MaxEpisodes : ClientAddEpisodeRaises(w)
  \/ \E w \in 1..MaxEpisodes : BuildCommunitiesEnds(w)

\* ------------------------------------------------------------------ clear_graph
\* The record of a call in clear_calls: what was passed, the code it found,
\* where the call is, what it returned (shown: the code its message carries)
\* and what it did, in order (removed: the nodes its clear_data deleted;
\* n_accepted: how many add_episode calls had been accepted by then).
Call(auth, pc, result, shown, effects) ==
  [auth |-> auth, code_before |-> graph_clear_auth_code, pc |-> pc,
   result |-> result, shown |-> shown, effects |-> effects, removed |-> {},
   n_accepted |-> 0]

\* Faulty variant of NotRootGroup: the root-group check is dropped.
NotRootGroup_Dropped == FALSE

\* current_group_id != root_group_id
NotRootGroup == config_group_id # root_group_id

\* The PERMISSION DENIED return.
PermissionDenied(auth) ==
  /\ clear_calls' = Append(clear_calls, Call(auth, "returned", "PermissionDenied", 0, <<>>))
  /\ UNCHANGED graph_clear_auth_code

\* Step 1: no auth, the AUTHENTICATION REQUIRED return with the current code.
AuthRequired(auth) ==
  /\ clear_calls' = Append(clear_calls,
        Call(auth, "returned", "AuthRequired", graph_clear_auth_code, <<>>))
  /\ UNCHANGED graph_clear_auth_code

\* Faulty variant of AuthInvalid: the mismatch is reported but the code is kept.
AuthInvalid_NoRotation(auth) ==
  /\ clear_calls' = Append(clear_calls,
        Call(auth, "returned", "AuthInvalid", graph_clear_auth_code, <<>>))
  /\ UNCHANGED graph_clear_auth_code

\* Step 2, mismatch: a new code, the INVALID AUTHENTICATION return carrying it.
AuthInvalid(auth) ==
  \E c \in NewAuthCode :
    /\ graph_clear_auth_code' = c
    /\ clear_calls' = Append(clear_calls, Call(auth, "returned", "AuthInvalid", c, <<"rotate">>))

\* Authentication passed but the client is None.
NotInitialized(auth) ==
  /\ clear_calls' = Append(clear_calls, Call(auth, "returned", "NotInitialized", 0, <<>>))
  /\ UNCHANGED graph_clear_auth_code

\* Authentication passed: the call suspends in `await clear_data(client.driver)`.
Authorized(auth) ==
  /\ clear_calls' = Append(clear_calls, Call(auth, "clear_data", "pending", 0, <<>>))
  /\ UNCHANGED graph_clear_auth_code

\* Faulty variant of clear_graph: the client is checked before the root
\* namespace and the auth.
clear_graph_ClientFirst(auth) ==
  /\ Len(clear_calls) < MaxClearCalls
  /\ IF graphiti_client = None THEN NotInitialized(auth)
     ELSE IF NotRootGroup THEN PermissionDenied(auth)
     ELSE IF auth = NoAuth THEN AuthRequired(auth)
     ELSE IF auth # ExpectedAuth(graph_clear_auth_code) THEN AuthInvalid(auth)
     ELSE Authorized(auth)
  /\ UNCHANGED <<confVars, response, ingestVars, graph>>

\* clear_graph(auth) up to its return or its first await.
clear_graph(auth) ==
  /\ Len(clear_calls) < MaxClearCalls
  /\ IF NotRootGroup THEN PermissionDenied(auth)
     ELSE IF auth = NoAuth THEN AuthRequired(auth)
     ELSE IF auth # ExpectedAuth(graph_clear_auth_code) THEN AuthInvalid(auth)
     ELSE IF graphiti_client = None THEN NotInitialized(auth)
     ELSE Authorized(auth)
  /\ UNCHANGED <<confVars, response, ingestVars, graph>>

\* Faulty variant of ClearDataReturns: only the root namespace is cleared.
ClearDataReturns_RootOnly(i) ==
  /\ i \in DOMAIN clear_calls
  /\ clear_calls[i].pc = "clear_data"
  /\ graph' = {n \in graph : n.group_id # root_group_id}
  /\ clear_calls' = [clear_calls EXCEPT ![i].pc = "build_indices_and_constraints",
                                        ![i].effects = Append(@, "clear_data"),
                                        ![i].removed = graph \ graph',
                                        ![i].n_accepted = Len(accepted)]
  /\ UNCHANGED <<confVars, response, ingestVars, graph_clear_auth_code>>

\* `await clear_data(client.driver)` returns: clear_data is called without
\* group_ids, so every node of the database is gone, whatever its namespace.
ClearDataReturns(i) ==
  /\ i \in DOMAIN clear_calls
  /\ clear_calls[i].pc = "clear_data"
  /\ graph' = {}
  /\ clear_calls' = [clear_calls EXCEPT ![i].pc = "build_indices_and_constraints",
                                        ![i].effects = Append(@, "clear_data"),
                                        ![i].removed = graph,
                                        ![i].n_accepted = Len(accepted)]
  /\ UNCHANGED <<confVars, response, ingestVars, graph_clear_auth_code>>

\* Faulty variant of ClearDataRaises: the except branch draws a new code.
ClearDataRaises_Rotates(i) ==
  /\ i \in DOMAIN clear_calls
  /\ clear_calls[i].pc = "clear_data"
  /\ \E c \in NewAuthCode :
       /\ graph_clear_auth_code' = c
       /\ clear_calls' = [clear_calls EXCEPT ![i].pc = "returned", ![i].result = "Error"]
  /\ UNCHANGED <<confVars, response, ingestVars, graph>>

\* clear_data raises: the except branch returns the error record.
ClearDataRaises(i) ==
  /\ i \in DOMAIN clear_calls
  /\ clear_calls[i].pc = "clear_data"
  /\ clear_calls' = [clear_calls EXCEPT ![i].pc = "returned", ![i].result = "Error"]
  /\ UNCHANGED <<confVars, response, ingestVars, graph, graph_clear_auth_code>>

\* Faulty variant of BuildIndicesReturns: success is returned, the code is kept.
BuildIndicesReturns_NoRotation(i) ==
  /\ i \in DOMAIN clear_calls
  /\ clear_calls[i].pc = "build_indices_and_constraints"
  /\ clear_calls' = [clear_calls EXCEPT ![i].pc = "returned", ![i].result = "Success",
                       ![i].effects = @ \o <<"build_indices_and_constraints">>]
  /\ UNCHANGED <<confVars, response, ingestVars, graph, graph_clear_auth_code>>

\* `await client.build_indices_and_constraints()` returns: rotate, return success.
BuildIndicesReturns(i) ==
  /\ i \in DOMAIN clear_calls
  /\ clear_calls[i].pc = "build_indices_and_constraints"
  /\ \E c \in NewAuthCode :
       /\ graph_clear_auth_code' = c
       /\ clear_calls' = [clear_calls EXCEPT ![i].pc = "returned", ![i].result = "Success",
                            ![i].effects = @ \o <<"build_indices_and_constraints", "rotate">>]
  /\ UNCHANGED <<confVars, response, ingestVars, graph>>

\* build_indices_and_constraints raises: the except branch returns the error record.
BuildIndicesRaises(i) ==
  /\ i \in DOMAIN clear_calls
  /\ clear_calls[i].pc = "build_indices_and_constraints"
  /\ clear_calls' = [clear_calls EXCEPT ![i].pc = "returned", ![i].result = "Error"]
  /\ UNCHANGED <<confVars, response, ingestVars, graph, graph_clear_auth_code>>

GuardNext ==
  \/ \E a \in AuthArgs : clear_graph(a)
  \/ \E i \in 1..MaxClearCalls : ClearDataReturns(i)
  \/ \E i \in 1..MaxClearCalls : ClearDataRaises(i)
  \/ \E i \in 1..MaxClearCalls : BuildIndicesReturns(i)
  \/ \E i \in 1..MaxClearCalls : BuildIndicesRaises(i)

Next == IngestNext \/ GuardNext

\* Ingestion and clear_graph together.
Spec == Init /\ [][Next]_vars
\* The ingestion engine alone, started on an empty database: no clear_graph
\* call is made, so the authorization code is never read and one initial
\* code stands for all.
InitIngest == Init /\ graph_clear_auth_code = 1 /\ graph = {}
SpecIngest == InitIngest /\ [][IngestNext]_vars
\* The ingestion engine, the failures of build_communities recorded.
SpecCommunities == InitIngest /\ [][CommunitiesNext]_vars
\* register_entity(name, entity_class) called while the server serves, by
\* code other than the startup loader (the function is exported by the
\* entities package); once, for a name that is not registered.
LateRegistration ==
  /\ "Late" \notin DOMAIN entity_registry
  /\ entity_registry' = register_entity(entity_registry, "Late",
                                        Schema(File(ProjectDir, <<>>, "late.py", FALSE, <<>>),
                                               Class("Late", TRUE)))
  /\ UNCHANGED <<config_group_id, root_group_id, graphiti_client, startup, load_log,
                 servingVars>>
\* The ingestion engine of a root server (config.group_id is the root namespace).
InitRootIngest == InitIngest /\ config_group_id = root_group_id
\* Ingestion on a root server while a schema may be registered.
SpecLateRegistration == InitRootIngest /\ [][IngestNext \/ LateRegistration]_vars
\* Startup alone, for every command line.
SpecStartup == InitStartup /\ [][StartupNext]_vars
\* The clear_graph guard alone (no add_episode call is made).
SpecGuard == Init /\ [][GuardNext]_vars
\* clear_graph on a server whose client was never set: the tools are
\* registered when the module is imported, graphiti_client is None until
\* initialize_graphiti has built it.
InitUninitialized ==
  /\ config_group_id \in Namespaces
  /\ root_group_id = "root"
  /\ graphiti_client = None
  /\ startup = Serving
  /\ entity_registry = DefaultStarted.registry
  /\ load_log = DefaultStarted.log
  /\ episode_queues = <<>>
  /\ queue_workers = <<>>
  /\ workers = <<>>
  /\ graph \in InitialGraphs
  /\ graph_clear_auth_code \in Codes
  /\ clear_calls = <<>>
  /\ accepted = <<>>
  /\ events = <<>>
  /\ response = NoResponse
  /\ cli = NoCli
UninitializedNext == \E a \in AuthArgs : clear_graph(a)
SpecUninitialized == InitUninitialized /\ [][UninitializedNext]_vars
\* Ingestion and clear_graph together, on a root server whose database holds
\* earlier data.
InitRootServer ==
  Init /\ config_group_id = root_group_id /\ graph_clear_auth_code = 1 /\ graph # {}
SpecRootServer == InitRootServer /\ [][Next]_vars

\* One worker task's steps; every ready task is run and every backend call ends.
WorkerStep(w) ==
  \/ WorkerStart(w)
  \/ WorkerGet(w)
  \/ ClientAddEpisodeOk(w)
  \/ ClientAddEpisodeRaises(w)
  \/ BuildCommunitiesEnds(w)

\* The ingestion engine under a fair event loop and terminating backend calls.
LiveIngest ==
  InitIngest /\ [][IngestNext]_vars /\ \A w \in 1..MaxEpisodes : WF_vars(WorkerStep(w))

\* The ingestion engine where only the worker tasks of namespace demo are
\* sure to be run and to have their backend calls end: a backend call made
\* for another namespace may take forever.  The server's default is root.
DemoWorkerStep(w) ==
  w \in DOMAIN workers /\ workers[w].group_id = "demo" /\ WorkerStep(w)
LiveDemo ==
  InitRootIngest /\ [][IngestNext]_vars /\ \A w \in 1..MaxEpisodes : WF_vars(DemoWorkerStep(w))

\* The worker task w is cancelled, or (suspended in get()) its loop ends on
\* an unexpected error.  A task that has not run yet never enters its try;
\* otherwise the finally of the loop marks the task in hand done and the outer
\* finally resets the flag.  The queue is not touched.
WorkerStops(w) ==
  /\ w \in DOMAIN workers
  /\ workers[w].pc # "stopped"
  /\ \E cause \in IF workers[w].pc = "get" THEN {"cancelled", "unexpected error"}
                   ELSE {"cancelled"} :
       events' = events
         \o <<[kind |-> "stopped", id |-> workers[w].process_func.id, worker |-> w,
               cause |-> cause, ran |-> workers[w].pc # "created",
               n_accepted |-> Len(accepted)]>>
         \o (IF workers[w].process_func # NoTask
             THEN <<[kind |-> "done", id |-> workers[w].process_func.id, worker |-> w]>>
             ELSE <<>>)
  /\ workers' = [workers EXCEPT ![w].pc = "stopped", ![w].process_func = NoTask]
  /\ queue_workers' = IF workers[w].pc = "created" THEN queue_workers
                      ELSE SetFlag(queue_workers, workers[w].group_id, FALSE)
  /\ UNCHANGED <<confVars, response, episode_queues, graph, guardVars, accepted>>

\* The most worker tasks there can be: one from before, one per accepted call.
MaxWorkers == MaxEpisodes + 1
\* A server that has served root before, its worker waiting in get() on an
\* empty queue (the history starts here), or a server that has served nothing.
InitStops ==
  /\ config_group_id \in Namespaces
  /\ root_group_id = "root"
  /\ graphiti_client = "Graphiti"
  /\ startup = Serving
  /\ entity_registry = DefaultStarted.registry
  /\ load_log = DefaultStarted.log
  /\ \/ /\ episode_queues = ("root" :> <<>>)
        /\ queue_workers = ("root" :> TRUE)
        /\ workers = <<[group_id |-> "root", pc |-> "get", process_func |-> NoTask]>>
        /\ graph = {OldNode("root")}
     \/ /\ episode_queues = <<>>
        /\ queue_workers = <<>>
        /\ workers = <<>>
        /\ graph = {}
  /\ graph_clear_auth_code = 1
  /\ clear_calls = <<>>
  /\ accepted = <<>>
  /\ events = <<>>
  /\ response = NoResponse
  /\ cli = NoCli
StopsNext ==
  \/ \E p \in Payloads, g \in GroupArgs : add_episode(p, g)
  \/ \E w \in 1..MaxWorkers : WorkerStep(w)
  \/ \E w \in 1..MaxWorkers : WorkerStops(w)
\* Ingestion with worker tasks that may stop.
SpecStops == InitStops /\ [][StopsNext]_vars

\* Command lines of the servers that go on to serve: root entities and the
\* whole project directory, or one project subdirectory alone.
ServerArgsSet ==
  { Args("TRUE", ProjectDir, <<>>), Args("false", ProjectDir, <<"a">>) }
InitServer == InitStartup /\ startup.args \in ServerArgsSet
\* Once initialize_server has returned, the transport serves add_episode
\* calls (entity_subset passed or not) and the workers run.
ServerNext ==
  \/ StartupNext
  \/ /\ startup = Serving
     /\ \/ \E p \in SubsetPayloads, g \in GroupArgs : add_episode(p, g)
        \/ \E w \in 1..MaxEpisodes : WorkerStep(w)
\* Startup followed by ingestion.
SpecServer == InitServer /\ [][ServerNext]_vars
\* ------------------------------------------------------------------ get_episodes
\* client.retrieve_episodes(group_ids=[g], last_n): the namespace's episodic
\* nodes (the graph holds fewer than last_n = 10 nodes per namespace here).
RetrieveEpisodes(g) == {n \in graph : n.group_id = g}

\* get_episodes(group_id): the episode records returned (none: the
\* 'No episodes found' message with an empty list).
get_episodes(group_id) == RetrieveEpisodes(EffectiveGroupId(group_id))

\* ------------------------------------------------------------------ search_nodes
\* group_ids as a caller passes them: nothing, or a list of namespaces.
NoGroupIds == <<None>>
GroupIdLists == {NoGroupIds, <<>>, <<"demo">>, <<"root", "demo">>}

\* Faulty variant of EffectiveGroupIds: without group_ids every namespace is
\* searched.
EffectiveGroupIds_EveryNamespace(group_ids) ==
  IF group_ids # NoGroupIds THEN group_ids ELSE <<"root", "demo">>

\* group_ids if group_ids is not None else [config.group_id] if config.group_id else []
EffectiveGroupIds(group_ids) ==
  IF group_ids # NoGroupIds THEN group_ids
  ELSE IF config_group_id \notin {None, ""} THEN <<config_group_id>> ELSE <<>>

\* client._search(group_ids=...).nodes, client.search(group_ids=...): what
\* the graph holds for the namespaces of the list.  The graph keeps one item
\* per persisted episode; it stands for the episodic node and for the entity
\* nodes and facts extracted from it.
ClientSearch(group_ids) == {n \in graph : n.group_id \in Range(group_ids)}

\* What search_nodes returns when the backend answers.
NodeSearchResponse(group_ids) ==
  LET nodes == ClientSearch(EffectiveGroupIds(group_ids))
  IN IF nodes = {} THEN JsonDict([message |-> "No relevant nodes found", nodes |-> {}])
     ELSE JsonDict([message |-> "Nodes retrieved successfully", nodes |-> nodes])

\* Faulty variant of FactSearchResponse: an empty result is returned as null.
FactSearchResponse_NullWhenEmpty(group_ids) ==
  LET facts == ClientSearch(EffectiveGroupIds(group_ids))
  IN IF facts = {} THEN [type |-> "null"]
     ELSE JsonDict([message |-> "Facts retrieved successfully", facts |-> facts])

\* What search_facts returns when the backend answers.
FactSearchResponse(group_ids) ==
  LET facts == ClientSearch(EffectiveGroupIds(group_ids))
  IN IF facts = {} THEN JsonDict([message |-> "No relevant facts found", facts |-> {}])
     ELSE JsonDict([message |-> "Facts retrieved successfully", facts |-> facts])

\* What get_episodes returns when the backend answers: the list of the
\* episodes, or the 'No episodes found' message with an empty list.
EpisodesResponse(group_id) ==
  LET episodes == RetrieveEpisodes(EffectiveGroupId(group_id))
  IN IF episodes = {}
     THEN JsonDict([message |-> "No episodes found for group", episodes |-> {}])
     ELSE JsonList(episodes)

ErrorResponse(error) == JsonDict([error |-> error])
\* The record of a tool's call: its argument, whether the backend was called
\* and with which namespaces, how the backend call ended ("none": it was not
\* made), and what the tool returned.
ToolCall(tool, args, called, passed, outcome, result) ==
  [tool |-> tool, args |-> args, called |-> called, passed |-> passed,
   outcome |-> outcome, result |-> result]
\* The backend call of a read tool returns, or raises.
Outcomes == {"returns", "raises"}

\* Faulty variant of Caught: the exception leaves the tool.
Caught_Propagates(error) == [type |-> "exception", error |-> error]

\* `except Exception as e: return {'error': ...}` of a tool.
Caught(error) == ErrorResponse(error)

\* search_nodes(query, group_ids): one step, the backend query included.
search_nodes(group_ids) ==
  /\ IF graphiti_client = None
     THEN response' = ToolCall("search_nodes", group_ids, FALSE, <<>>, "none",
                               ErrorResponse("Graphiti client not initialized"))
     ELSE \E outcome \in Outcomes :
            response' = ToolCall("search_nodes", group_ids, TRUE, EffectiveGroupIds(group_ids), outcome,
                                 IF outcome = "returns" THEN NodeSearchResponse(group_ids)
                                 ELSE Caught("Error searching nodes"))
  /\ UNCHANGED <<confVars, ingestVars, graph, guardVars>>

\* search_facts(query, group_ids)
search_facts(group_ids) ==
  /\ IF graphiti_client = None
     THEN response' = ToolCall("search_facts", group_ids, FALSE, <<>>, "none",
                               ErrorResponse("Graphiti client not initialized"))
     ELSE \E outcome \in Outcomes :
            response' = ToolCall("search_facts", group_ids, TRUE, EffectiveGroupIds(group_ids), outcome,
                                 IF outcome = "returns" THEN FactSearchResponse(group_ids)
                                 ELSE Caught("Error searching facts"))
  /\ UNCHANGED <<confVars, ingestVars, graph, guardVars>>

\* The tool get_episodes(group_id, last_n); group_id is a string or None, so
\* the 'Group ID must be a string' return is not taken.
get_episodes_tool(group_id) ==
  /\ IF graphiti_client = None
     THEN response' = ToolCall("get_episodes", group_id, FALSE, <<>>, "none",
                               ErrorResponse("Graphiti client not initialized"))
     ELSE \E outcome \in Outcomes :
            response' = ToolCall("get_episodes", group_id, TRUE, <<EffectiveGroupId(group_id)>>, outcome,
                                 IF outcome = "returns" THEN EpisodesResponse(group_id)
                                 ELSE Caught("Error getting episodes"))
  /\ UNCHANGED <<confVars, ingestVars, graph, guardVars>>

\* uuid as a caller passes it: the uuid of the old nodes, or another one.
Uuids == {"u-0", "u-1"}

\* get_entity_edge(uuid): EntityEdge.get_by_uuid returns the edge or raises
\* (entity edges are outside the modelled graph, so either may happen).
get_entity_edge(uuid) ==
  /\ IF graphiti_client = None
     THEN response' = ToolCall("get_entity_edge", uuid, FALSE, <<>>, "none",
                               ErrorResponse("Graphiti client not initialized"))
     ELSE \E outcome \in Outcomes :
            response' = ToolCall("get_entity_edge", uuid, TRUE, <<>>, outcome,
                                 IF outcome = "returns" THEN JsonDict([uuid |-> uuid, fact |-> "fact"])
                                 ELSE Caught("Error getting entity edge"))
  /\ UNCHANGED <<confVars, ingestVars, graph, guardVars>>

\* delete_entity_edge(uuid): get_by_uuid, then delete; either may raise.
delete_entity_edge(uuid) ==
  /\ IF graphiti_client = None
     THEN response' = ToolCall("delete_entity_edge", uuid, FALSE, <<>>, "none",
                               ErrorResponse("Graphiti client not initialized"))
     ELSE \E outcome \in Outcomes :
            response' = ToolCall("delete_entity_edge", uuid, TRUE, <<>>, outcome,
                                 IF outcome = "returns"
                                 THEN JsonDict([message |-> "Entity edge deleted successfully"])
                                 ELSE Caught("Error deleting entity edge"))
  /\ UNCHANGED <<confVars, ingestVars, graph, guardVars>>

\* delete_episode(uuid): EpisodicNode.get_by_uuid raises when no node has the
\* uuid; otherwise the node is deleted, unless the backend raises.
delete_episode(uuid) ==
  LET found == {n \in graph : n.uuid = uuid} IN
  /\ IF graphiti_client = None
     THEN /\ response' = ToolCall("delete_episode", uuid, FALSE, <<>>, "none",
                                  ErrorResponse("Graphiti client not initialized"))
          /\ graph' = graph
     ELSE \E outcome \in IF found = {} THEN {"raises"} ELSE Outcomes :
            /\ response' = ToolCall("delete_episode", uuid, TRUE, <<>>, outcome,
                                    IF outcome = "returns"
                                    THEN JsonDict([message |-> "Episode deleted successfully"])
                                    ELSE Caught("Error deleting episode"))
            /\ graph' = IF outcome = "returns" THEN graph \ found ELSE graph
  /\ UNCHANGED <<confVars, ingestVars, guardVars>>

\* The status resource: driver.verify_connectivity() returns or raises.
get_status ==
  /\ IF graphiti_client = None
     THEN response' = ToolCall("get_status", None, FALSE, <<>>, "none",
                               JsonDict([status |-> "error", message |-> "Graphiti client not initialized"]))
     ELSE \E outcome \in Outcomes :
            response' = ToolCall("get_status", None, TRUE, <<>>, outcome,
                                 IF outcome = "returns"
                                 THEN JsonDict([status |-> "ok", message |-> "running and connected"])
                                 ELSE JsonDict([status |-> "error", message |-> "connection failed"]))
  /\ UNCHANGED <<confVars, ingestVars, graph, guardVars>>

\* The tools that answer at once: add_episode (its workers do not run here)
\* and the read tools.
ToolsNext ==
  \/ \E p \in Payloads, g \in GroupArgs : add_episode(p, g)
  \/ \E l \in GroupIdLists : search_nodes(l)
  \/ \E l \in GroupIdLists : search_facts(l)
  \/ \E g \in GroupArgs : get_episodes_tool(g)
InitTools == Init /\ graph_clear_auth_code = 1
SpecTools == InitTools /\ [][ToolsNext]_vars

\* The synchronous tools and the status resource, every backend call of
\* theirs returning or raising; clear_graph is called with the valid auth,
\* the one case in which it reaches the backend.
SyncNext ==
  \/ \E l \in GroupIdLists : search_nodes(l)
  \/ \E l \in GroupIdLists : search_facts(l)
  \/ \E g \in GroupArgs : get_episodes_tool(g)
  \/ \E u \in Uuids : get_entity_edge(u)
  \/ \E u \in Uuids : delete_entity_edge(u)
  \/ \E u \in Uuids : delete_episode(u)
  \/ get_status
  \/ clear_graph(ExpectedAuth(graph_clear_auth_code))
  \/ \E i \in 1..MaxClearCalls : ClearDataReturns(i)
  \/ \E i \in 1..MaxClearCalls : ClearDataRaises(i)
  \/ \E i \in 1..MaxClearCalls : BuildIndicesReturns(i)
  \/ \E i \in 1..MaxClearCalls : BuildIndicesRaises(i)
SpecSync == InitRootServer /\ [][SyncNext]_vars

\* ------------------------------------------------------------------ docker commands
\* A call the command still has to make: which function, for a compose
\* command its argument list, and the function that makes it.
Step(call, cmd, by) == [call |-> call, cmd |-> cmd, by |-> by]

\* run_docker_compose(subcmd, log_level, detached): ensure the compose file,
\* add -d, run_command(["docker", "compose"] + subcmd, check=True).
run_docker_compose(subcmd, detached, by) ==
  << Step("ensure_docker_compose_file", <<>>, by),
     Step("run_command",
          <<"docker", "compose">> \o
            (IF detached /\ subcmd[1] \in {"up", "restart"} THEN Append(subcmd, "-d") ELSE subcmd),
          by) >>

\* Faulty variant of docker_up: the compose file is only ensured, as in the
\* superseded graphiti_cli/commands.py.
docker_up_EnsureOnly(detached) ==
  << Step("ensure_docker_compose_file", <<>>, "docker_up"),
     Step("ensure_dist_for_build", <<>>, "docker_up") >>
  \o run_docker_compose(<<"up", "--build", "--force-recreate">>, detached, "docker_up")

docker_up(detached) ==
  << Step("ensure_dist_for_build", <<>>, "docker_up"),
     Step("generate_compose_logic", <<>>, "docker_up") >>
  \o run_docker_compose(<<"up", "--build", "--force-recreate">>, detached, "docker_up")

docker_down == run_docker_compose(<<"down">>, FALSE, "docker_down")

docker_restart(detached) ==
  run_docker_compose(<<"down">>, FALSE, "docker_restart") \o docker_up(detached)

\* pyproject.toml and dist/ as ensure_dist_for_build finds them.
BuildConfigs == {"published package", "local wheel", "local wheel, no dist"}
\* The command lines: graphiti up [-d], down, restart [-d].
CommandLines ==
  {[command |-> "up", detached |-> d] : d \in BOOLEAN}
  \cup {[command |-> "down", detached |-> FALSE]}
  \cup {[command |-> "restart", detached |-> d] : d \in BOOLEAN}
Calls(c) ==
  IF c.command = "up" THEN docker_up(c.detached)
  ELSE IF c.command = "down" THEN docker_down
  ELSE docker_restart(c.detached)

\* The CLI process at the start of a command: what it will call, whether
\* docker-compose.yml exists (had_compose_file keeps the answer at the
\* start), and what it has done so far, in order.
Started(c, compose_file, build) ==
  [pc |-> "running", command |-> c.command, detached |-> c.detached, todo |-> Calls(c),
   compose_file |-> compose_file, had_compose_file |-> compose_file, build |-> build,
   effects |-> <<>>]

\* The call at the head of todo has returned.
Returned(st) ==
  [st EXCEPT !.todo = Tail(@), !.pc = IF Tail(st.todo) = <<>> THEN "completed" ELSE "running"]
\* sys.exit, or an exception nobody catches: the process ends here.
Exited(st) == [st EXCEPT !.pc = "exited"]
Did(st, effect) == [st EXCEPT !.effects = Append(@, effect)]
NextCall(call) == cli.pc = "running" /\ Head(cli.todo).call = call

\* What is left alone by the CLI, which is not the server's process.
serverVars == <<config_group_id, root_group_id, graphiti_client, startup, entity_registry,
                load_log, ingestVars, graph, guardVars, response>>

\* compose_generator.generate_compose_logic(repo_root): the file is written
\* at the end, or the generator exits.
generate_compose_logic(st, outcome) ==
  IF outcome = "returns"
  THEN [Did(st, Step("generate_compose_logic", <<>>, Head(st.todo).by))
          EXCEPT !.compose_file = TRUE]
  ELSE Exited(st)

\* ensure_docker_compose_file(): generate only if the file is missing.
EnsureDockerComposeFile ==
  /\ NextCall("ensure_docker_compose_file")
  /\ \E outcome \in Outcomes :
       cli' = IF cli.compose_file THEN Returned(cli)
              ELSE LET st == generate_compose_logic(cli, outcome)
                   IN IF st.pc = "exited" THEN st ELSE Returned(st)
  /\ UNCHANGED serverVars

\* ensure_dist_for_build(): exits if a local wheel is configured and missing.
EnsureDistForBuild ==
  /\ NextCall("ensure_dist_for_build")
  /\ cli' = IF cli.build = "local wheel, no dist" THEN Exited(cli)
            ELSE Returned(Did(cli, Head(cli.todo)))
  /\ UNCHANGED serverVars

\* The generate_compose_logic call of docker_up.
GenerateComposeLogic ==
  /\ NextCall("generate_compose_logic")
  /\ \E outcome \in Outcomes :
       LET st == generate_compose_logic(cli, outcome)
       IN cli' = IF st.pc = "exited" THEN st ELSE Returned(st)
  /\ UNCHANGED serverVars

\* run_command(cmd, check=True): the command runs; a non-zero exit code
\* ends the CLI with sys.exit.
RunCommand ==
  /\ NextCall("run_command")
  /\ \E outcome \in Outcomes :
       cli' = IF outcome = "returns" THEN Returned(Did(cli, Head(cli.todo)))
              ELSE Exited(Did(cli, Head(cli.todo)))
  /\ UNCHANGED serverVars

DockerNext ==
  \/ EnsureDockerComposeFile
  \/ EnsureDistForBuild
  \/ GenerateComposeLogic
  \/ RunCommand

\* The CLI's docker commands, for every command line, with and without a
\* compose file; no server process is part of it.
InitDocker ==
  /\ config_group_id = "root"
  /\ root_group_id = "root"
  /\ graphiti_client = None
  /\ startup = [pc |-> "not running"]
  /\ entity_registry = <<>>
  /\ load_log = <<>>
  /\ episode_queues = <<>>
  /\ queue_workers = <<>>
  /\ workers = <<>>
  /\ graph = {}
  /\ graph_clear_auth_code = 1
  /\ clear_calls = <<>>
  /\ accepted = <<>>
  /\ events = <<>>
  /\ response = NoResponse
  /\ cli \in {Started(c, f, b) : c \in CommandLines, f \in BOOLEAN, b \in BuildConfigs}
SpecDocker == InitDocker /\ [][DockerNext]_vars

\* ------------------------------------------------------------------ history
Ids == 1..Len(accepted)
TaskOf(e) == accepted[e].task
GroupOf(e) == TaskOf(e).group_id_str
CountIn(ev, kind, e) ==
  Cardinality({i \in DOMAIN ev : ev[i].kind = kind /\ ev[i].id = e})
EventCount(kind, e) == CountIn(events, kind, e)
QueueCount(e) ==
  Cardinality({i \in DOMAIN episode_queues[GroupOf(e)] : episode_queues[GroupOf(e)][i].id = e})
\* The workers of g that hold a dequeued task whose processing has not ended.
InFlight(g) ==
  {w \in DOMAIN workers :
     workers[w].group_id = g /\ workers[w].pc \in {"client.add_episode", "client.build_communities"}}
WorkersOf(g) == {w \in DOMAIN workers : workers[w].group_id = g /\ workers[w].pc # "stopped"}

\* ------------------------------------------------------------------ claims
\* C1: for episodes of the same group_id, processing completes in enqueue
\* order: of two "done" events of one namespace the earlier belongs to the
\* episode enqueued earlier.
C1_FifoCompletion ==
  \A i, j \in DOMAIN events :
    (/\ i < j
     /\ events[i].kind = "done" /\ events[j].kind = "done"
     /\ GroupOf(events[i].id) = GroupOf(events[j].id))
    => events[i].id < events[j].id

\* C2: at most one task of a namespace is in flight in any reachable state.
C2_SingleWriter ==
  \A g \in Namespaces : Cardinality(InFlight(g)) <= 1

\* C3: every namespace that has a queue has exactly one worker task on it.
C3_OneWorkerPerNamespace ==
  \A g \in DOMAIN episode_queues : Cardinality(WorkersOf(g)) = 1

\* C4: every task put on a queue is dequeued exactly once: it is on its queue
\* once and was never taken, or it is off the queue and was taken once; a task
\* marked done was taken before.
C4_DequeuedExactlyOnce ==
  \A e \in Ids :
    /\ QueueCount(e) + EventCount("get", e) = 1
    /\ EventCount("done", e) <= EventCount("get", e)

\* C4 witness: two workers read the same queue and both episodes were dequeued.
C4_Witness ==
  \E g \in Namespaces :
    /\ Cardinality(WorkersOf(g)) = 2
    /\ \A w \in WorkersOf(g) : workers[w].pc # "created"
    /\ Len(accepted) = 2
    /\ \A e \in Ids : GroupOf(e) = g /\ EventCount("get", e) = 1
\* What the round trip compares: name, body, namespace and, if supplied, uuid.
Matches(n, t) ==
  /\ n.name = t.name
  /\ n.body = t.episode_body
  /\ n.group_id = t.group_id_str
  /\ (t.uuid # None => n.uuid = t.uuid)
Included(e) == \E n \in get_episodes(GroupOf(e)) : Matches(n, TaskOf(e))
\* The queue of g is empty and no worker of g holds a task.
Drained(g) ==
  g \in DOMAIN episode_queues /\ episode_queues[g] = <<>> /\ InFlight(g) = {}

\* C5 as stated: once the namespace's queue has drained, get_episodes of the
\* namespace includes a node matching every accepted episode.
C5_PersistedOnceDrained ==
  \A e \in Ids : Drained(GroupOf(e)) => Included(e)

\* C5 as amended: every accepted episode is eventually dequeued and marked
\* done, and an episode marked done whose backend call did not raise has its
\* own matching node among get_episodes of its namespace.
C5_ProcessedAndPersistedUnlessFailed ==
  /\ \A e \in 1..MaxEpisodes : (Len(accepted) >= e) ~> (EventCount("done", e) = 1)
  /\ [](\A e \in Ids :
          (EventCount("done", e) = 1 /\ EventCount("error", e) = 0)
          => \E n \in get_episodes(GroupOf(e)) : n.id = e /\ Matches(n, TaskOf(e)))

\* C5 witness: a namespace other than the default has drained, one episode
\* with a uuid is persisted and returned, another failed and is not.
C5_Witness ==
  \E e, f \in Ids :
    /\ GroupOf(e) # config_group_id /\ Drained(GroupOf(e)) /\ Drained(GroupOf(f))
    /\ TaskOf(e).uuid # None
    /\ EventCount("done", e) = 1 /\ EventCount("error", e) = 0 /\ Included(e)
    /\ EventCount("done", f) = 1 /\ EventCount("error", f) = 1 /\ ~Included(f)

\* C6: the step in which the processing of a dequeued episode fails marks the
\* task done once, leaves it off every queue, and leaves the worker in its
\* loop: it holds the next task of the namespace if there is one and waits in
\* get() otherwise; a failed task stays done once and off the queue.
C6_FailedTaskConsumed ==
  /\ [][\A w \in DOMAIN workers :
          LET e == workers[w].process_func.id
              g == workers[w].group_id
          IN (workers[w].pc = "client.add_episode"
              /\ CountIn(events', "error", e) = CountIn(events, "error", e) + 1)
             => /\ CountIn(events', "done", e) = 1
                /\ \A i \in DOMAIN episode_queues'[g] : episode_queues'[g][i].id # e
                /\ IF episode_queues[g] # <<>>
                   THEN /\ workers'[w].pc = "client.add_episode"
                        /\ workers'[w].process_func = Head(episode_queues[g])
                   ELSE workers'[w].pc = "get"]_vars
  /\ [](\A e \in Ids : EventCount("error", e) >= 1
          => EventCount("error", e) = 1 /\ EventCount("done", e) = 1 /\ QueueCount(e) = 0)

\* C6 witness: a worker whose first task failed has since taken the next task
\* of the namespace.
C6_Witness ==
  \E i, j \in DOMAIN events :
    /\ i < j
    /\ events[i].kind = "error" /\ events[j].kind = "get"
    /\ events[i].worker = events[j].worker
    /\ events[i].id # events[j].id

\* C7: in the step that accepts an add_episode call (the acknowledgement is
\* returned in it) the task is the last item of its namespace's queue, no
\* worker has taken it, and a worker task for the namespace exists.
C7_AckAfterEnqueueAndSpawn ==
  [][Len(accepted') = Len(accepted) + 1
     => LET t == accepted'[Len(accepted')].task
            g == t.group_id_str
        IN /\ g \in DOMAIN episode_queues'
           /\ episode_queues'[g] # <<>>
           /\ episode_queues'[g][Len(episode_queues'[g])] = t
           /\ CountIn(events', "get", t.id) = 0
           /\ \E w \in DOMAIN workers' :
                workers'[w].group_id = g /\ workers'[w].pc # "stopped"]_vars

\* C7 witness: the first call for a namespace was acknowledged; its task is
\* queued and its worker is spawned but has not run yet.
C7_Witness ==
  /\ Len(accepted) = 1
  /\ episode_queues[GroupOf(1)] = <<TaskOf(1)>>
  /\ \E w \in DOMAIN workers : workers[w].group_id = GroupOf(1) /\ workers[w].pc = "created"
  /\ events = <<>>
\* ------------------------------------------------------------------ clear_graph claims
\* The auth string built from code c.
AuthOf(c) == [code |-> c, rest |-> DELETE_SUFFIX]
\* The call went past the authentication checks.
Accepted(c) == c.result \in {"pending", "Success", "Error", "NotInitialized"}

\* C8: with a default namespace other than the root namespace every
\* clear_graph call returns PermissionDenied whatever its auth, and the step
\* of the call changes neither the graph nor the authorization code.
C8_NonRootAlwaysDenied ==
  /\ [](config_group_id # root_group_id
        => \A i \in DOMAIN clear_calls :
             /\ clear_calls[i].result = "PermissionDenied"
             /\ clear_calls[i].pc = "returned"
             /\ clear_calls[i].effects = <<>>)
  /\ [][(config_group_id # root_group_id /\ clear_calls' # clear_calls)
        => graph' = graph /\ graph_clear_auth_code' = graph_clear_auth_code]_vars

\* C8 witness: on a non-root server with a non-empty graph, a call without
\* auth and a call with the correct auth were both denied.
C8_Witness ==
  /\ config_group_id # root_group_id
  /\ graph # {}
  /\ \E i, j \in DOMAIN clear_calls :
       /\ clear_calls[i].auth = NoAuth
       /\ clear_calls[j].auth = AuthOf(graph_clear_auth_code)
       /\ clear_calls[i].result = "PermissionDenied"
       /\ clear_calls[j].result = "PermissionDenied"

\* C9: the graph is cleared only in a call whose auth is the code current at
\* the call followed by the suffix; a call that returned success did
\* clear_data, then build_indices_and_constraints, then rotated the code; a
\* call with no auth or any other auth returns at once and never clears.
C9_ClearedOnlyByValidAuth ==
  /\ [](\A i \in DOMAIN clear_calls :
          LET c == clear_calls[i]
              valid == c.auth = AuthOf(c.code_before)
          IN /\ ~valid => /\ c.pc = "returned"
                          /\ "clear_data" \notin Range(c.effects)
                          /\ c.result \in {"PermissionDenied", "AuthRequired", "AuthInvalid"}
             /\ (valid /\ config_group_id = root_group_id) => Accepted(c)
             /\ c.result = "Success"
                  => /\ valid
                     /\ c.effects = <<"clear_data", "build_indices_and_constraints", "rotate">>)
  /\ [][~(graph \subseteq graph')
        => /\ graph' = {}
           /\ \E i \in DOMAIN clear_calls :
                /\ clear_calls[i].auth = AuthOf(clear_calls[i].code_before)
                /\ clear_calls[i].pc = "clear_data"
                /\ clear_calls'[i].pc = "build_indices_and_constraints"]_vars

\* C9 witness: after a rejected call with a wrong auth left the graph alone, a
\* call with the valid auth returned success and the graph is empty.
C9_Witness ==
  /\ graph = {}
  /\ \E i, j \in DOMAIN clear_calls :
       /\ i < j
       /\ clear_calls[i].result = "AuthInvalid"
       /\ clear_calls[j].result = "Success"

IsNewCall == Len(clear_calls') = Len(clear_calls) + 1
NewCall == clear_calls'[Len(clear_calls')]
\* A call that already returned success was made with this auth.
SucceededWith(auth) ==
  \E j \in DOMAIN clear_calls : clear_calls[j].result = "Success" /\ clear_calls[j].auth = auth

\* C11 as stated: once a call has returned success with auth A, every call
\* made afterwards with the same A is rejected and leaves the graph alone.
C11_UsedAuthRejected ==
  [][(IsNewCall /\ SucceededWith(NewCall.auth))
     => ~Accepted(NewCall) /\ graph' = graph]_vars

\* C11 as amended: a call that returned success rotated the code as its last
\* effect; a call made afterwards with the same A is rejected with
\* AuthInvalid and leaves the graph alone unless the code current at that
\* call is A's code again (a later draw repeated it), and only then is it
\* accepted.
C11_UsedAuthRejectedUnlessRedrawn ==
  /\ [](\A i \in DOMAIN clear_calls :
          clear_calls[i].result = "Success"
          => clear_calls[i].effects[Len(clear_calls[i].effects)] = "rotate")
  /\ [][(IsNewCall /\ SucceededWith(NewCall.auth))
        => /\ graph' = graph
           /\ IF NewCall.auth.code = graph_clear_auth_code
              THEN Accepted(NewCall)
              ELSE NewCall.result = "AuthInvalid" /\ NewCall.pc = "returned"]_vars

\* C11 witness: a call succeeded with A, the draw gave another code, and the
\* next call, made with the same A, was rejected.
C11_Witness ==
  \E j, k \in DOMAIN clear_calls :
    /\ j < k
    /\ clear_calls[j].result = "Success"
    /\ clear_calls[k].auth = clear_calls[j].auth
    /\ clear_calls[k].code_before # clear_calls[j].code_before
    /\ clear_calls[k].result = "AuthInvalid"
    /\ "clear_data" \notin Range(clear_calls[k].effects)

\* C12: of two overlapping clear_graph calls made with the same valid auth
\* (the second is checked while the first, still in flight, awaits the
\* backend) at most one clears the graph.
C12_OverlappingCallsClearOnce ==
  \A i, j \in DOMAIN clear_calls :
    (/\ i < j
     /\ clear_calls[i].pc # "returned"
     /\ clear_calls[j].auth = clear_calls[i].auth
     /\ clear_calls[j].code_before = clear_calls[i].code_before)
    => ~(/\ "clear_data" \in Range(clear_calls[i].effects)
         /\ "clear_data" \in Range(clear_calls[j].effects))

\* The step in which the clear_data of call i returns.
ClearStep(i) ==
  /\ clear_calls[i].pc = "clear_data"
  /\ clear_calls'[i].pc = "build_indices_and_constraints"

\* C14 as stated: a clear destroys the nodes of the root namespace and leaves
\* the nodes of every other namespace as they were.
C14_OtherNamespacesUntouched ==
  [][\A i \in DOMAIN clear_calls :
       ClearStep(i)
       => /\ RetrieveEpisodes(root_group_id)' = {}
          /\ \A g \in Namespaces \ {root_group_id} :
               RetrieveEpisodes(g)' = RetrieveEpisodes(g)]_vars

\* C14 as amended: a clear destroys the nodes of every namespace, the root
\* namespace and the others alike: after the step no namespace has a node,
\* and everything the graph held was removed by the call; a call that
\* returned success has done this step.
C14_ClearDestroysEveryNamespace ==
  /\ [][\A i \in DOMAIN clear_calls :
          ClearStep(i)
          => /\ \A g \in Namespaces : RetrieveEpisodes(g)' = {}
             /\ clear_calls'[i].removed = graph]_vars
  /\ [](\A i \in DOMAIN clear_calls :
          clear_calls[i].result = "Success" => "clear_data" \in Range(clear_calls[i].effects))

\* C14 witness: a successful clear on the root server removed a node of the
\* root namespace and a node of another namespace.
C14_Witness ==
  \E i \in DOMAIN clear_calls :
    /\ clear_calls[i].result = "Success"
    /\ \E n \in clear_calls[i].removed : n.group_id = root_group_id
    /\ \E n \in clear_calls[i].removed : n.group_id # root_group_id
    /\ graph = {}

\* C13: after a clear_graph call has returned success, and as long as no
\* add_episode call has been accepted since its clear, search_nodes returns
\* an empty list of nodes for every list of namespaces.
C13_EmptyUntilNewEpisodes ==
  \A i \in DOMAIN clear_calls :
    (clear_calls[i].result = "Success" /\ Len(accepted) = clear_calls[i].n_accepted)
    => \A l \in GroupIdLists : NodeSearchResponse(l).fields.nodes = {}

C16_RegisteredOnlyAtStartup ==
  /\ [](startup # Serving
        => /\ accepted = <<>> /\ workers = <<>> /\ events = <<>>
           /\ response = NoResponse /\ clear_calls = <<>>)
  /\ [][entity_registry' # entity_registry
        => startup.pc \in {"load_root", "load_project"}]_vars
  /\ [][startup = Serving
        => \A n \in DOMAIN entity_registry :
             /\ get_entity_subset(entity_registry, <<n>>) = (n :> entity_registry[n])
             /\ get_entity_subset(entity_registry', <<n>>)
                  = get_entity_subset(entity_registry, <<n>>)]_vars

\* C16 witness: a server that loaded root and project entities serves; two
\* calls were accepted, one passing entity_subset, and a worker has finished
\* an episode; the registry still holds what startup logged as registered.
C16_Witness ==
  /\ startup = Serving
  /\ Len(accepted) = 2
  /\ \E e \in Ids : TaskOf(e).name = "S1"
  /\ \E i \in DOMAIN events : events[i].kind = "done"
  /\ {"Requirement", "Tool", "Procedure", "Goal", "Preference"} \subseteq DOMAIN entity_registry
  /\ get_entity_subset(entity_registry, <<"Goal">>)
       = ("Goal" :> [file |-> <<ProjectDir, << <<"a">>, <<"n">> >>, "deep.py">>, name |-> "Goal"])

\* The log lines of the registrations of name n, in order.
Registrations(n) ==
  {i \in DOMAIN load_log :
     load_log[i].msg = "Auto-registered entity" /\ load_log[i].about.name = n}
RegisteredNames ==
  {load_log[i].about.name : i \in {j \in DOMAIN load_log : load_log[j].msg = "Auto-registered entity"}}
Last(S) == CHOOSE i \in S : \A j \in S : j <= i
\* The registry holds, under every name registered so far and under no other,
\* the schema of the name's latest registration.
LatestWins ==
  /\ DOMAIN entity_registry = RegisteredNames
  /\ \A n \in DOMAIN entity_registry :
       entity_registry[n] = load_log[Last(Registrations(n))].about

\* C17 as stated: the latest registration of a name wins, every other name
\* keeps its schema, and each registration of a name already registered is
\* followed by a warning in the log.
C17_ReplacesAndWarns ==
  /\ LatestWins
  /\ \A n \in RegisteredNames : \A i, j \in Registrations(n) :
       i < j => \E k \in DOMAIN load_log : k > j /\ load_log[k].level = "warning"

\* C17 as amended: the latest registration of a name wins and every other
\* name keeps its schema, one schema per name; the replacement is logged like
\* any registration, by a debug line, and the loader's warnings are about
\* directories and selectors only.
C17_ReplacesSilently ==
  /\ LatestWins
  /\ \A i \in DOMAIN load_log :
       /\ load_log[i].msg = "Auto-registered entity" => load_log[i].level = "debug"
       /\ load_log[i].level = "warning"
            => load_log[i].msg \in {"No Python files found",
                                    "Specified entity subdirectory does not exist",
                                    "Base entities directory does not exist",
                                    "Empty or invalid subdir selection spec",
                                    "Root entities directory not found",
                                    "Project entities directory not found"}

\* C17 witness: Requirement was registered by a root file and then by a
\* project file; the project schema is in the registry, Tool still has its
\* root schema, and the log has no warning.
C17_Witness ==
  /\ startup.pc = "initialize_graphiti"
  /\ Cardinality(Registrations("Requirement")) = 2
  /\ entity_registry["Requirement"].file = <<ProjectDir, << <<"a">> >>, "req.py">>
  /\ entity_registry["Tool"].file[1] = container_base_entity_dir
  /\ \A i \in DOMAIN load_log : load_log[i].level # "warning"

\* A file that registers something when loaded: its name does not start
\* with '__', its module executes, and it has a documented class.
Registers(f) ==
  ~StartsWithDunder(f) /\ ~f.raises /\ \E i \in DOMAIN f.classes : f.classes[i].doc
FileId(f) == <<f.base, f.sub, f.name>>
\* The files under base that the log shows registering a schema.
Contributed(base) ==
  {load_log[i].about.file :
     i \in {j \in DOMAIN load_log :
              load_log[j].msg = "Auto-registered entity" /\ load_log[j].about.file[1] = base}}
\* The names a selector lists: what stands between two commas (or an end of
\* the selector) without the blanks around it, if anything is left.
NamedIn(sel) ==
  LET I == DOMAIN sel
      segment(a, b, c, d) ==
        /\ a <= c /\ c <= d /\ d <= b
        /\ a = 1 \/ sel[a - 1] = ","
        /\ b = Len(sel) \/ sel[b + 1] = ","
        /\ \A i \in a..b : sel[i] # ","
        /\ \A i \in a..(c - 1) : sel[i] = " "
        /\ \A i \in (d + 1)..b : sel[i] = " "
        /\ sel[c] # " " /\ sel[d] # " "
  IN {SubSeq(sel, q[3], q[4]) :
        q \in {r \in I \X I \X I \X I : segment(r[1], r[2], r[3], r[4])}}
\* The files of base a selector asks for: all of them, or those under the
\* immediate subdirectories it names.
Selected(base, sel) ==
  {FileId(f) : f \in {g \in Files :
     /\ g.base = base /\ Registers(g)
     /\ sel # <<>> => (g.sub # <<>> /\ g.sub[1] \in NamedIn(sel))}}

SearchUsesDefaultOrGiven ==
  response.tool \in {"search_nodes", "search_facts"} /\ response.called
    => /\ response.passed = (IF response.args = NoGroupIds THEN <<config_group_id>>
                             ELSE response.args)
       /\ \/ DOMAIN response.result.fields = {"error"}
          \/ response.passed = <<>>
          \/ \E k \in {"nodes", "facts"} :
               /\ k \in DOMAIN response.result.fields
               /\ response.result.fields[k] = {n \in graph : n.group_id \in Range(response.passed)}
EpisodesUseDefaultOrGiven ==
  response.tool = "get_episodes" /\ response.called
    => response.passed = <<IF response.args = None THEN config_group_id ELSE response.args>>
AddUsesDefaultOrGiven ==
  \A p \in Payloads, g \in GroupArgs :
    add_episode(p, g) =>
      LET task == accepted'[Len(accepted')].task
          used == IF g = None THEN config_group_id ELSE g
      IN /\ task.group_id_str = used
         /\ used \in DOMAIN episode_queues'
         /\ episode_queues'[used] = Append(IF used \in DOMAIN episode_queues
                                           THEN episode_queues[used] ELSE <<>>, task)
C19_DefaultNamespaceWhenOmitted ==
  /\ [](SearchUsesDefaultOrGiven /\ EpisodesUseDefaultOrGiven)
  /\ [][AddUsesDefaultOrGiven]_vars
\* A search without group_ids on a server whose default is demo, with nodes
\* in both namespaces: only demo was queried and only demo's node came back.
C19_Witness ==
  /\ response.tool = "search_nodes"
  /\ response.args = NoGroupIds
  /\ config_group_id = "demo"
  /\ response.passed = <<"demo">>
  /\ OldNode("root") \in graph
  /\ response.result = JsonDict([message |-> "Nodes retrieved successfully",
                                 nodes |-> {OldNode("demo")}])

\* ------------------------------------------------------------------ C20
IsDictOf(r, keys) == r.type = "dict" /\ DOMAIN r.fields = keys
IsError(r) == IsDictOf(r, {"error"})
OtherToolsShape ==
  response.tool \in {"add_episode", "search_nodes", "search_facts"} =>
    \/ IsError(response.result)
    \/ response.tool = "add_episode" /\ IsDictOf(response.result, {"message"})
    \/ response.tool = "search_nodes" /\ IsDictOf(response.result, {"message", "nodes"})
    \/ response.tool = "search_facts" /\ IsDictOf(response.result, {"message", "facts"})
SyncTools ==
  {"search_nodes", "search_facts", "get_entity_edge", "get_episodes",
   "delete_entity_edge", "delete_episode"}
\* The record the status resource returns for a failure.
IsStatusError(r) == IsDictOf(r, {"status", "message"}) /\ r.fields.status = "error"
RaisedInTool ==
  /\ response.tool \in SyncTools /\ response.outcome = "raises" => IsError(response.result)
  /\ response.tool = "get_status" /\ response.outcome = "raises"
       => IsStatusError(response.result)
  /\ response.tool \in SyncTools \cup {"get_status"} => response.result.type # "exception"
RaisedInClearGraph ==
  \A i \in 1..MaxClearCalls :
    ClearDataRaises(i) \/ BuildIndicesRaises(i)
      => clear_calls'[i].pc = "returned" /\ clear_calls'[i].result = "Error"
\* C21: a failure the graph backend raises during a call of search_nodes,
\* search_facts, get_entity_edge, get_episodes, delete_entity_edge,
\* delete_episode, clear_graph or the status resource comes back to the
\* caller as an error record (for status: the status record saying "error");
\* no exception leaves the tool.
C21_BackendFailureIsAnErrorRecord ==
  /\ []RaisedInTool
  /\ [][RaisedInClearGraph]_vars
\* delete_episode of an existing episode failed in the backend: the error
\* record came back and the episode is still there.
C21_Witness ==
  /\ response.tool = "delete_episode"
  /\ response.outcome = "raises"
  /\ IsError(response.result)
  /\ \E n \in graph : n.uuid = response.args
  /\ \E i \in DOMAIN clear_calls : clear_calls[i].result = "Error"

\* ------------------------------------------------------------------ C22
\* An accepted episode sent as json whose body json.loads rejects.
Malformed(e) ==
  TaskOf(e).source_type = "json" /\ json_loads(TaskOf(e).episode_body) = "JSONDecodeError"
GetEvent(e) == events[CHOOSE i \in DOMAIN events : events[i].kind = "get" /\ events[i].id = e]
\* C22 as stated: a malformed json episode is queued, handed to the graph
\* store with its original body, and persisted: once its processing has
\* ended its node is among the episodes of its namespace.
C22_MalformedJsonPersisted ==
  \A e \in Ids : Malformed(e) /\ EventCount("done", e) = 1 => Included(e)
AcceptedAsSent ==
  \A p \in Payloads, g \in GroupArgs :
    add_episode(p, g) =>
      LET task == accepted'[Len(accepted')].task IN
      /\ task.episode_body = p.episode_body /\ task.source_type = p.format
      /\ episode_queues'[task.group_id_str][Len(episode_queues'[task.group_id_str])] = task
      /\ response'.result = Queued(p.name, Len(episode_queues'[task.group_id_str]))
\* C22: a malformed json episode is accepted and queued like any other; the
\* parse error does not end its processing: the worker that takes it goes on
\* to the graph store's add_episode with the original body string, and the
\* episode is persisted with that body if that call returns; if the call
\* raises the episode is consumed without being persisted.
C22_MalformedJsonHandedToStore ==
  /\ [][AcceptedAsSent]_vars
  /\ [](\A w \in DOMAIN workers :
          workers[w].process_func # NoTask
          => workers[w].pc \in {"client.add_episode", "client.build_communities"})
  /\ [](\A e \in Ids : Malformed(e) /\ EventCount("get", e) >= 1
          => GetEvent(e).parse = "JSONDecodeError")
  /\ [](\A e \in Ids : Malformed(e) /\ EventCount("done", e) = 1
          => IF EventCount("error", e) = 0
             THEN \E n \in graph : n.id = e /\ n.body = TaskOf(e).episode_body
                                   /\ n.group_id = GroupOf(e)
             ELSE \A n \in graph : n.id # e)
\* A malformed json episode was processed to the end and its node, with the
\* body as sent, is in the graph.
C22_Witness ==
  \E e \in Ids :
    /\ Malformed(e)
    /\ TaskOf(e).episode_body = "{not json"
    /\ EventCount("done", e) = 1 /\ EventCount("error", e) = 0
    /\ \E n \in graph : n.id = e /\ n.body = "{not json"

\* ------------------------------------------------------------------ C23
\* Every step a worker's position calls for can be taken, whatever the workers
\* of other namespaces are doing.
NeverBlocked ==
  \A w \in DOMAIN workers :
    /\ workers[w].pc = "created" => ENABLED WorkerStart(w)
    /\ workers[w].pc = "get" /\ episode_queues[workers[w].group_id] # <<>>
         => ENABLED WorkerGet(w)
    /\ workers[w].pc = "client.add_episode" => ENABLED ClientAddEpisodeOk(w)
    /\ workers[w].pc = "client.build_communities" => ENABLED BuildCommunitiesEnds(w)
\* A worker's step leaves the workers and the queues of other namespaces as
\* they are.
OthersUntouched ==
  \A w \in DOMAIN workers :
    WorkerStep(w) =>
      /\ \A v \in DOMAIN workers :
           workers[v].group_id # workers[w].group_id => workers'[v] = workers[v]
      /\ \A g \in DOMAIN episode_queues :
           g # workers[w].group_id => episode_queues'[g] = episode_queues[g]
\* C23: workers of different namespaces progress independently: a task
\* enqueued for namespace demo is started and completed even if the backend
\* calls made for other namespaces never end; no step of a worker waits for,
\* or changes, the worker or the queue of another namespace.
C23_NamespacesIndependent ==
  /\ \A e \in 1..MaxEpisodes :
       (Len(accepted) >= e /\ GroupOf(e) = "demo") ~> (EventCount("done", e) = 1)
  /\ []NeverBlocked
  /\ [][OthersUntouched]_vars
\* A task of root was taken first and is still in flight; after that a task
\* of demo was taken and completed.
C23_Witness ==
  \E i, j, k \in DOMAIN events :
    /\ i < j /\ j < k
    /\ events[i].kind = "get" /\ GroupOf(events[i].id) = "root"
    /\ EventCount("done", events[i].id) = 0
    /\ events[i].worker \in InFlight("root")
    /\ events[j].kind = "get" /\ GroupOf(events[j].id) = "demo"
    /\ events[k].kind = "done" /\ events[k].id = events[j].id

\* ------------------------------------------------------------------ C24
\* C24: the position in the acknowledgement of add_episode is the number of
\* tasks on the namespace's queue right after the put, the new one included
\* and the dequeued ones not: it is at least 1, and it is 1 when the queue
\* was empty or did not exist.
C24_PositionIsDepthAfterPut ==
  /\ [][\A p \in Payloads, g \in GroupArgs :
          add_episode(p, g) =>
            LET ns == EffectiveGroupId(g)
                before == IF ns \in DOMAIN episode_queues THEN Len(episode_queues[ns]) ELSE 0
                position == response'.result.fields.message.position
            IN /\ position = Len(episode_queues'[ns])
               /\ position = before + 1
               /\ position = Cardinality({e \in 1..Len(accepted') :
                                 accepted'[e].task.group_id_str = ns
                                 /\ CountIn(events', "get", e) = 0})
               /\ position >= 1
               /\ before = 0 => position = 1]_vars
  /\ [](response.tool = "add_episode" => response.result.fields.message.position >= 1)
\* The second episode of a namespace was acknowledged with position 1: the
\* first had been dequeued by then and was still being processed.
C24_Witness ==
  /\ Len(accepted) = 2
  /\ GroupOf(1) = GroupOf(2)
  /\ accepted[2].position = 1
  /\ response = [tool |-> "add_episode", result |-> Queued(TaskOf(2).name, 1)]
  /\ EventCount("done", 1) = 0
  /\ QueueCount(2) = 1

\* ------------------------------------------------------------------ C25
\* What the CLI did to the compose file and the containers, in order:
\* "generate", or the compose subcommand that was run.
RECURSIVE EffectNames(_)
EffectNames(effects) ==
  IF effects = <<>> THEN <<>>
  ELSE LET e == Head(effects)
       IN (IF e.call = "generate_compose_logic" THEN <<"generate">>
           ELSE IF e.call = "run_command" THEN <<e.cmd[3]>>
           ELSE <<>>) \o EffectNames(Tail(effects))
\* In a restart the compose down command was run before anything docker_up does.
DownBeforeDockerUp ==
  cli.command = "restart" =>
    \A i \in DOMAIN cli.effects :
      cli.effects[i].by = "docker_up" =>
        \E j \in 1..(i - 1) : cli.effects[j].call = "run_command" /\ cli.effects[j].cmd[3] = "down"
\* docker_up generated the compose file before it ran the up command.
RegeneratedBeforeUp ==
  \A i \in DOMAIN cli.effects :
    cli.effects[i].call = "run_command" /\ cli.effects[i].cmd[3] = "up" =>
      \E j \in 1..(i - 1) :
        cli.effects[j].call = "generate_compose_logic" /\ cli.effects[j].by = "docker_up"
Done(names) ==
  /\ IsPrefix(EffectNames(cli.effects), names)
  /\ cli.pc = "completed" => EffectNames(cli.effects) = names
\* C25 as stated: the effects of docker_restart are down, regenerate, up, in
\* this order, whether or not a compose file exists.
C25_DownRegenerateUp ==
  cli.pc # "none" =>
    /\ DownBeforeDockerUp
    /\ RegeneratedBeforeUp
    /\ cli.command = "restart" => Done(<<"down", "generate", "up">>)
\* C25: docker_restart runs compose down before anything of docker_up, and
\* docker_up always generates docker-compose.yml before it runs compose up;
\* with a compose file the effects are down, generate, up; without one the
\* file is generated first, before down: generate, down, generate, up.
C25_GenerateFirstIfMissing ==
  cli.pc # "none" =>
    /\ DownBeforeDockerUp
    /\ RegeneratedBeforeUp
    /\ cli.command = "restart" =>
         Done(IF cli.had_compose_file THEN <<"down", "generate", "up">>
              ELSE <<"generate", "down", "generate", "up">>)
    /\ cli.command = "up" => Done(<<"generate", "up">>)
\* A restart without a compose file has completed.
C25_Witness ==
  /\ cli.pc = "completed"
  /\ cli.command = "restart"
  /\ ~cli.had_compose_file
  /\ EffectNames(cli.effects) = <<"generate", "down", "generate", "up">>

\* ------------------------------------------------------------------ C26
\* C26: when build_communities fails after an episode was persisted, the
\* episode stays in the graph, its task is marked done once and is not
\* counted as failed, and the worker stays in its loop: it holds the next
\* task of the namespace if there is one and waits in get() otherwise.
C26_RebuildFailureDoesNotFailTask ==
  /\ [][\A w \in DOMAIN workers :
          BuildCommunitiesRaises(w) =>
            LET e == workers[w].process_func.id
                g == workers[w].group_id
            IN /\ graph' = graph
               /\ \E n \in graph' : n.id = e /\ Matches(n, TaskOf(e))
               /\ CountIn(events', "done", e) = CountIn(events, "done", e) + 1
               /\ queue_workers' = queue_workers
               /\ IF episode_queues[g] # <<>>
                  THEN /\ workers'[w].pc = "client.add_episode"
                       /\ workers'[w].process_func = Head(episode_queues[g])
                  ELSE workers'[w].pc = "get"]_vars
  /\ [](\A e \in Ids : EventCount("communities_error", e) >= 1
          => /\ \E n \in graph : n.id = e /\ Matches(n, TaskOf(e))
             /\ EventCount("done", e) = 1
             /\ EventCount("error", e) = 0
             /\ QueueCount(e) = 0)
\* The rebuild failed after an episode was persisted; the episode is in the
\* graph and the same worker has since taken the next task of the namespace.
C26_Witness ==
  \E i, j \in DOMAIN events :
    /\ i < j
    /\ events[i].kind = "communities_error" /\ events[j].kind = "get"
    /\ events[i].worker = events[j].worker
    /\ events[i].id # events[j].id
    /\ \E n \in graph : n.id = events[i].id

\* ------------------------------------------------------------------ C27
\* The tasks on the queues and in the workers' hands are the tasks as accepted.
TasksAsAccepted ==
  /\ \A g \in DOMAIN episode_queues : \A i \in DOMAIN episode_queues[g] :
       episode_queues[g][i] = TaskOf(episode_queues[g][i].id)
  /\ \A w \in DOMAIN workers :
       workers[w].process_func # NoTask
       => workers[w].process_func = TaskOf(workers[w].process_func.id)
StopResetsFlagKeepsQueue ==
  \A w \in DOMAIN workers :
    (WorkerStops(w) /\ workers[w].pc # "created")
    => /\ ~queue_workers'[workers[w].group_id]
       /\ episode_queues' = episode_queues
\* The first add_episode accepted for a namespace after a worker of it has
\* stopped spawns a worker.
NextAddSpawns ==
  \A k \in DOMAIN events :
    (/\ events[k].kind = "stopped" /\ events[k].ran
     /\ Len(accepted') = Len(accepted) + 1
     /\ accepted'[Len(accepted')].task.group_id_str = workers[events[k].worker].group_id
     /\ \A e \in Ids : e > events[k].n_accepted
                       => GroupOf(e) # workers[events[k].worker].group_id)
    => Len(workers') = Len(workers) + 1
\* Event i is the completion of a task of the namespace of the worker stopped
\* at event k, taken from the queue after that stop.
DoneOfRemaining(k, i) ==
  /\ k < i
  /\ events[i].kind = "done"
  /\ GroupOf(events[i].id) = workers[events[k].worker].group_id
  /\ \E g \in DOMAIN events :
       k < g /\ g < i /\ events[g].kind = "get" /\ events[g].id = events[i].id
\* The tasks a namespace's queue holds or receives after its worker has
\* stopped are completed in enqueue order.
RemainingInOrder ==
  \A k, i, j \in DOMAIN events :
    (/\ events[k].kind = "stopped" /\ events[k].ran
     /\ i < j
     /\ DoneOfRemaining(k, i) /\ DoneOfRemaining(k, j))
    => events[i].id < events[j].id
\* C28: when a namespace's worker stops, its flag is reset, the queue keeps
\* its tasks, the next accepted add_episode of the namespace spawns a
\* replacement, and the remaining tasks are processed in enqueue order.
C28_ReplacementProcessesInOrder ==
  /\ [][StopResetsFlagKeepsQueue]_vars
  /\ [][NextAddSpawns]_vars
  /\ []RemainingInOrder

\* ------------------------------------------------------------------ C29
\* The step in which the backend call awaited by call i raises.
BackendFails(i) == ClearDataRaises(i) \/ BuildIndicesRaises(i)
\* The failing step returns the error record and changes neither the code
\* nor the graph.
FailureKeepsCode ==
  \A i \in DOMAIN clear_calls :
    BackendFails(i)
    => /\ clear_calls'[i].result = "Error" /\ clear_calls'[i].pc = "returned"
       /\ graph_clear_auth_code' = graph_clear_auth_code
       /\ graph' = graph
\* C29 as stated: when the backend clear or the index rebuild of an
\* authorized call fails, the call returns an error record, the code is left
\* unchanged, and the auth the call was made with is the one a next call has
\* to pass.
C29_SameAuthStillAccepted ==
  [][/\ FailureKeepsCode
     /\ \A i \in DOMAIN clear_calls :
          BackendFails(i)
          => clear_calls[i].auth = ExpectedAuth(graph_clear_auth_code')]_vars
\* Another call than i has drawn a code.
RotatedByAnother(i) ==
  \E j \in DOMAIN clear_calls \ {i} : "rotate" \in Range(clear_calls[j].effects)
\* C29 as amended: the failing step returns an error record and leaves the
\* code unchanged; the auth of the failed call is accepted by a later call
\* while the code is the one the failed call found, and the code is another
\* one only if another call has drawn a code since.
C29_SameAuthAcceptedUnlessRotated ==
  [][/\ FailureKeepsCode
     /\ \A i \in DOMAIN clear_calls :
          (BackendFails(i) /\ graph_clear_auth_code' # clear_calls[i].code_before)
          => RotatedByAnother(i)
     /\ \A i \in DOMAIN clear_calls :
          (/\ IsNewCall
           /\ clear_calls[i].result = "Error"
           /\ NewCall.auth = clear_calls[i].auth)
          => IF graph_clear_auth_code = clear_calls[i].code_before
             THEN NewCall.pc = "clear_data"
             ELSE NewCall.result = "AuthInvalid"]_vars
\* C29 witness: a call failed in the backend, and the next call, made with
\* the same auth, went past the checks to the backend.
C29_Witness ==
  \E i, j \in DOMAIN clear_calls :
    /\ j = i + 1
    /\ clear_calls[i].result = "Error"
    /\ clear_calls[j].auth = clear_calls[i].auth
    /\ clear_calls[j].code_before = clear_calls[i].code_before
    /\ clear_calls[j].pc # "returned"

\* ------------------------------------------------------------------ C30
\* C30: with an uninitialized client clear_graph still answers in the order
\* of its checks: permission denied off the root namespace; without auth the
\* current code; with a wrong auth a new code and the invalid-authentication
\* error; and only with the correct auth the not-initialized error, the code
\* and the graph left as they were.  No call reaches the backend.
C30_ClientCheckedLast ==
  /\ [][(IsNewCall /\ graphiti_client = None)
        => /\ NewCall.pc = "returned"
           /\ graph' = graph
           /\ NewCall.result =
                IF config_group_id # root_group_id THEN "PermissionDenied"
                ELSE IF NewCall.auth = NoAuth THEN "AuthRequired"
                ELSE IF NewCall.auth # AuthOf(graph_clear_auth_code) THEN "AuthInvalid"
                ELSE "NotInitialized"
           /\ NewCall.result = "AuthRequired" => NewCall.shown = graph_clear_auth_code
           /\ NewCall.result = "AuthInvalid"
              => /\ NewCall.effects = <<"rotate">>
                 /\ NewCall.shown = graph_clear_auth_code'
           /\ NewCall.result # "AuthInvalid"
              => /\ NewCall.effects = <<>>
                 /\ graph_clear_auth_code' = graph_clear_auth_code]_vars
  /\ [](graphiti_client = None
        => \A i \in DOMAIN clear_calls : "clear_data" \notin Range(clear_calls[i].effects))
\* C30 witness: with no client, a wrong auth drew another code, and the call
\* made with the auth of the new code got the not-initialized error.
C30_Witness ==
  /\ graphiti_client = None
  /\ \E i, j \in DOMAIN clear_calls :
       /\ i < j
       /\ clear_calls[i].result = "AuthInvalid"
       /\ clear_calls[i].shown # clear_calls[i].code_before
       /\ clear_calls[j].auth = AuthOf(clear_calls[i].shown)
       /\ clear_calls[j].result = "NotInitialized"
       /\ graph_clear_auth_code = clear_calls[i].shown
====
